---------------------------- MODULE Spec2Model ----------------------------
(***************************************************************************)
(* A model of the exrs attribute codec (src/src/file/attributes.rs) and of *)
(* the simple image line interface (src/src/image/simple.rs).              *)
(*                                                                         *)
(* Numbers.  A 32-bit word (i32, u32 or the bit pattern of an f32) is held *)
(* as the signed integer with the same 32 bits, in -2^31 .. 2^31-1.  The   *)
(* cast `i32 as u32` therefore leaves the representation alone, and the    *)
(* unsigned operations the code performs are written out on it (ULess,     *)
(* IsHuge).  A word with the top bit set is the unsigned number 2^32 + w.  *)
(*                                                                         *)
(* Streams.  A stream is a sequence of bytes 0..255; a read position is    *)
(* the 0-based offset of the next byte.                                    *)
(***************************************************************************)
EXTENDS Integers, Sequences, FiniteSets, TLC

VARIABLES
    stream,            \* the bytes of the in-memory stream (Cursor<Vec<u8>>)
    position,          \* read position in stream
    written,           \* the value handed to the last write operation, or NoValue
    op,                \* name of the operation that ran last
    request,           \* the parameters of the last read operation
    outcome,           \* its result: a write result or a read result
    reads,             \* number of read operations made on the stream
    debug_assertions,  \* build profile: are debug_assert!s compiled in
    image,             \* simple::Image under construction
    line,              \* the Line handed to the last Image::insert_line
    inserted,          \* result of the last Image::insert_line
    inserts,           \* number of Image::insert_line calls made
    file,              \* the file handed to Image::read_from_buffered
    parallel,          \* options.parallel_decompression
    pc,                \* where the read stands: idle, reading, done, failed
    next_chunk,        \* number of chunks taken from the file so far
    queue,             \* chunks submitted to the worker pool, not yet taken
    working,           \* per worker: the chunk it decompresses, or 0
    results,           \* the channel from the workers to the collector
    current,           \* lines of the block being applied, not yet inserted
    inserting,         \* threads inside a call of the user's insert_line
    allocations,       \* number of calls of the user's allocate
    call,              \* the last function applied, with its arguments
    returned           \* what it returned

vars == <<stream, position, written, op, request, outcome, reads, debug_assertions,
          image, line, inserted, inserts,
          file, parallel, pc, next_chunk, queue, working, results, current,
          inserting, allocations, call, returned>>

codec_vars == <<stream, position, written, op, request, outcome, reads>>
image_vars == <<image, line, inserted, inserts>>
read_vars == <<file, parallel, pc, next_chunk, queue, working, results, current,
               inserting, allocations>>
call_vars == <<call, returned>>

NoValue == [tag |-> "none", f |-> <<>>]

-----------------------------------------------------------------------------
(* Results.  `?` returns the first failure; a panic unwinds at once.  A    *)
(* write result carries the bytes that reached the stream before the       *)
(* operation returned or unwound.                                          *)

WOk(bytes) == [st |-> "ok", err |-> "", out |-> bytes]
WErr(e) == [st |-> "err", err |-> e, out |-> <<>>]
WPanic(e) == [st |-> "panic", err |-> e, out |-> <<>>]

\* a?; b  -- b runs only when a succeeded, and appends to what a wrote
Then(a, b) ==
    IF a.st = "ok" THEN [st |-> b.st, err |-> b.err, out |-> a.out \o b.out]
    ELSE a

ROk(v, pos) == [st |-> "ok", err |-> "", val |-> v, pos |-> pos, skip |-> 0]
RErr(e, pos) == [st |-> "err", err |-> e, val |-> <<>>, pos |-> pos, skip |-> 0]
RPanic(e, pos) == [st |-> "panic", err |-> e, val |-> <<>>, pos |-> pos, skip |-> 0]

-----------------------------------------------------------------------------
(* I/O primitives (file::io): little-endian scalars, byte arrays, the      *)
(* sequence terminator and the bounded vector read.                        *)

LE4(v) == << v % 256, (v \div 256) % 256, (v \div 65536) % 256,
             (v \div 16777216) % 256 >>

I32At(s, pos) ==
    s[pos + 1] + 256 * s[pos + 2] + 65536 * s[pos + 3]
    + 16777216 * (IF s[pos + 4] >= 128 THEN s[pos + 4] - 256 ELSE s[pos + 4])

\* unsigned `a < b` on two 32-bit words
ULess(a, b) ==
    IF (a < 0) = (b < 0) THEN a < b ELSE b < 0

u8_write(b) == WOk(<<b>>)
i32_write(v) == WOk(LE4(v))
write_u8_array(bytes) == WOk(bytes)
write_i8_array(values) == WOk([i \in 1..Len(values) |-> values[i] % 256])
SequenceEnd_write == WOk(<<0>>)

RECURSIVE write_words(_)
write_words(ws) ==
    IF ws = <<>> THEN WOk(<<>>) ELSE Then(i32_write(Head(ws)), write_words(Tail(ws)))

u8_read(s, pos) ==
    IF pos < Len(s) THEN ROk(s[pos + 1], pos + 1) ELSE RErr("Io", Len(s))

i32_read(s, pos) ==
    IF pos + 4 <= Len(s) THEN ROk(I32At(s, pos), pos + 4) ELSE RErr("Io", Len(s))

\* n consecutive 32-bit words (i32, u32 and f32 alike), first failure wins
RECURSIVE read_words(_, _, _, _)
read_words(s, pos, n, acc) ==
    IF n = 0 THEN ROk(acc, pos)
    ELSE LET w == i32_read(s, pos) IN
         IF w.st # "ok" THEN w ELSE read_words(s, w.pos, n - 1, Append(acc, w.val))

read_i8_array(s, pos, n) ==
    IF pos + n <= Len(s)
    THEN ROk([i \in 1..n |-> IF s[pos + i] >= 128 THEN s[pos + i] - 256 ELSE s[pos + i]],
             pos + n)
    ELSE RErr("Io", Len(s))

\* size is a usize: a word with the top bit set is far beyond every cap
read_u8_vec(s, pos, size, max) ==
    IF size < 0 \/ size > max THEN RErr("InvalidSize", pos)
    ELSE IF pos + size > Len(s) THEN RErr("Io", Len(s))
    ELSE ROk(SubSeq(s, pos + 1, pos + size), pos + size)

\* consumes the terminator when it is the next byte, nothing otherwise
SequenceEnd_has_come(s, pos) ==
    LET b == u8_read(s, pos) IN
    IF b.st # "ok" THEN b
    ELSE IF b.val = 0 THEN ROk(TRUE, b.pos) ELSE ROk(FALSE, pos)

-----------------------------------------------------------------------------
(* Text                                                                    *)

Some(b) == IF b THEN "true" ELSE "false"

\* the short limit taken one byte too far
Text_validate_bytes_inclusive(text, long_names) ==
    LET is_valid == text # <<>> /\ CASE long_names = "false" -> Len(text) <= 32
                                     [] long_names = "true" -> Len(text) < 256
                                     [] OTHER -> TRUE
    IN IF is_valid THEN WOk(<<>>)
       ELSE IF text = <<>> THEN WErr("Content(Text, Min(1))")
       ELSE IF long_names = "true" THEN WErr("Content(Text, Max(255))")
       ELSE WErr("Content(Text, Max(31))")

Text_validate_bytes(text, long_names) ==
    LET is_valid == text # <<>> /\ CASE long_names = "false" -> Len(text) < 32
                                     [] long_names = "true" -> Len(text) < 256
                                     [] OTHER -> TRUE
    IN IF is_valid THEN WOk(<<>>)
       ELSE IF text = <<>> THEN WErr("Content(Text, Min(1))")
       ELSE IF long_names = "true" THEN WErr("Content(Text, Max(255))")
       ELSE WErr("Content(Text, Max(31))")

Text_validate(text, long_names) == Text_validate_bytes(text, long_names)

Text_write_unsized_bytes(bytes, long_names) ==
    Then(Text_validate_bytes(bytes, long_names), write_u8_array(bytes))

Text_write_i32_sized(text, long_names) ==
    Then(i32_write(Len(text)), Text_write_unsized_bytes(text, long_names))

Text_write_null_terminated(text, long_names) ==
    Then(Text_write_unsized_bytes(text, long_names), SequenceEnd_write)

Text_write_null_terminated_bytes(bytes, long_names) ==
    Then(Text_write_unsized_bytes(bytes, long_names), SequenceEnd_write)

Text_read_sized(s, pos, size) == read_u8_vec(s, pos, size, 1024)

Text_read_i32_sized(s, pos) ==
    LET size == i32_read(s, pos) IN
    IF size.st # "ok" THEN size ELSE Text_read_sized(s, size.pos, size.val)

\* loop { match u8::read(read)? { 0 => break, b => bytes.push(b) } }: the bytes
\* up to the first terminator, which is consumed; an Io error when there is none
Text_read_null_terminated(s, pos) ==
    LET terminators == {i \in (pos + 1)..Len(s) : s[i] = 0} IN
    IF terminators = {} THEN RErr("Io", Len(s))
    ELSE LET end == CHOOSE i \in terminators : \A j \in terminators : i <= j
         IN ROk(SubSeq(s, pos + 1, end - 1), end)

\* while processed_bytes < attribute_value_byte_size { ... }; then the
\* debug_assert_eq!, which only a debug build evaluates
RECURSIVE read_vec_loop(_, _, _, _, _, _)
read_vec_loop(s, pos, size, processed_bytes, result, debug) ==
    IF ULess(processed_bytes, size)
    THEN LET text == Text_read_i32_sized(s, pos) IN
         IF text.st # "ok" THEN text
         ELSE read_vec_loop(s, text.pos, size, processed_bytes + 4 + Len(text.val),
                            Append(result, text.val), debug)
    ELSE IF debug /\ processed_bytes # size
         THEN RPanic("text lengths did not match attribute size", pos)
         ELSE ROk(result, pos)

Text_read_vec_of_i32_sized(s, pos, attribute_value_byte_size, debug) ==
    read_vec_loop(s, pos, attribute_value_byte_size, 0, <<>>, debug)

RECURSIVE Text_write_vec_of_i32_sized_texts(_)
Text_write_vec_of_i32_sized_texts(texts) ==
    IF texts = <<>> THEN WOk(<<>>)
    ELSE Then(Text_write_i32_sized(Head(texts), "None"),
              Text_write_vec_of_i32_sized_texts(Tail(texts)))

-----------------------------------------------------------------------------
(* Enumerations and small structures                                       *)

PixelType_write(pixel_type) ==
    i32_write(CASE pixel_type = "U32" -> 0 [] pixel_type = "F16" -> 1
                [] pixel_type = "F32" -> 2)

PixelType_read(s, pos) ==
    LET v == i32_read(s, pos) IN
    IF v.st # "ok" THEN v
    ELSE CASE v.val = 0 -> ROk("U32", v.pos) [] v.val = 1 -> ROk("F16", v.pos)
           [] v.val = 2 -> ROk("F32", v.pos)
           [] OTHER -> RErr("Content(Enum(pixelType), Range(0, 2))", v.pos)

Compression_write(c) ==
    u8_write(CASE c = "None" -> 0 [] c = "RLE" -> 1 [] c = "ZIPSingle" -> 2
               [] c = "ZIP" -> 3 [] c = "PIZ" -> 4 [] c = "PXR24" -> 5
               [] c = "B44" -> 6 [] c = "B44A" -> 7)

\* the two ZIP codecs taken for each other
Compression_read_swapped(s, pos) ==
    LET v == u8_read(s, pos) IN
    IF v.st # "ok" THEN v
    ELSE CASE v.val = 0 -> ROk("None", v.pos) [] v.val = 1 -> ROk("RLE", v.pos)
           [] v.val = 2 -> ROk("ZIP", v.pos) [] v.val = 3 -> ROk("ZIPSingle", v.pos)
           [] v.val = 4 -> ROk("PIZ", v.pos) [] v.val = 5 -> ROk("PXR24", v.pos)
           [] v.val = 6 -> ROk("B44", v.pos) [] v.val = 7 -> ROk("B44A", v.pos)
           [] OTHER -> RErr("Content(Enum(compression), Range(0, 7))", v.pos)

Compression_read(s, pos) ==
    LET v == u8_read(s, pos) IN
    IF v.st # "ok" THEN v
    ELSE CASE v.val = 0 -> ROk("None", v.pos) [] v.val = 1 -> ROk("RLE", v.pos)
           [] v.val = 2 -> ROk("ZIPSingle", v.pos) [] v.val = 3 -> ROk("ZIP", v.pos)
           [] v.val = 4 -> ROk("PIZ", v.pos) [] v.val = 5 -> ROk("PXR24", v.pos)
           [] v.val = 6 -> ROk("B44", v.pos) [] v.val = 7 -> ROk("B44A", v.pos)
           [] OTHER -> RErr("Content(Enum(compression), Range(0, 7))", v.pos)

EnvironmentMap_write(e) ==
    u8_write(CASE e = "LatitudeLongitude" -> 0 [] e = "Cube" -> 1)

EnvironmentMap_read(s, pos) ==
    LET v == u8_read(s, pos) IN
    IF v.st # "ok" THEN v
    ELSE CASE v.val = 0 -> ROk("LatitudeLongitude", v.pos)
           [] v.val = 1 -> ROk("Cube", v.pos)
           [] OTHER -> RErr("Content(Enum(envmap), Range(0, 1))", v.pos)

LineOrder_write(o) ==
    u8_write(CASE o = "IncreasingY" -> 0 [] o = "DecreasingY" -> 1 [] o = "RandomY" -> 2)

LineOrder_read(s, pos) ==
    LET v == u8_read(s, pos) IN
    IF v.st # "ok" THEN v
    ELSE CASE v.val = 0 -> ROk("IncreasingY", v.pos)
           [] v.val = 1 -> ROk("DecreasingY", v.pos)
           [] v.val = 2 -> ROk("RandomY", v.pos)
           [] OTHER -> RErr("Content(Enum(lineOrder), Range(0, 2))", v.pos)

\* KeyCode fields, in struct order: film_manufacturer_code, film_type,
\* film_roll_prefix, count, perforation_offset, perforations_per_frame,
\* perforations_per_count
KeyCode_write(k) == write_words(<<k[1], k[2], k[3], k[4], k[5], k[7]>>)

KeyCode_read(s, pos) == read_words(s, pos, 7, <<>>)

\* wrapping u32 multiplication, byte by byte
MulU32(a, b) ==
    LET x == LE4(a)
        y == LE4(b)
        c0 == x[1] * y[1]
        c1 == x[1] * y[2] + x[2] * y[1] + c0 \div 256
        c2 == x[1] * y[3] + x[2] * y[2] + x[3] * y[1] + c1 \div 256
        c3 == x[1] * y[4] + x[2] * y[3] + x[3] * y[2] + x[4] * y[1] + c2 \div 256
    IN I32At(<<c0 % 256, c1 % 256, c2 % 256, c3 % 256>>, 0)

\* Preview: <<width, height, pixel_data>>
Preview_write(p) == Then(i32_write(p[1]), Then(i32_write(p[2]), write_i8_array(p[3])))

\* the u32 product a * b passes 2^32 - 1: its upper four bytes are not all zero
MulOverflowsU32(a, b) ==
    LET x == LE4(a)
        y == LE4(b)
        c0 == x[1] * y[1]
        c1 == x[1] * y[2] + x[2] * y[1] + c0 \div 256
        c2 == x[1] * y[3] + x[2] * y[2] + x[3] * y[1] + c1 \div 256
        c3 == x[1] * y[4] + x[2] * y[3] + x[3] * y[2] + x[4] * y[1] + c2 \div 256
        c4 == x[2] * y[4] + x[3] * y[3] + x[4] * y[2] + c3 \div 256
        c5 == x[3] * y[4] + x[4] * y[3] + c4 \div 256
        c6 == x[4] * y[4] + c5 \div 256
    IN c4 % 256 # 0 \/ c5 % 256 # 0 \/ c6 # 0

\* width * height * components_per_pixel is a u32 product: a build with
\* overflow checks unwinds when it passes 2^32 - 1, the others wrap
Preview_read(s, pos, debug) ==
    LET components_per_pixel == 4
        width == i32_read(s, pos)
        height == i32_read(s, width.pos)
        overflows == \/ MulOverflowsU32(width.val, height.val)
                     \/ MulOverflowsU32(MulU32(width.val, height.val),
                                        components_per_pixel)
        count == MulU32(MulU32(width.val, height.val), components_per_pixel)
        pixel_data == IF count < 0 THEN RErr("Io", Len(s))
                      ELSE read_i8_array(s, height.pos, count)
    IN IF width.st # "ok" THEN width
       ELSE IF height.st # "ok" THEN height
       ELSE IF debug /\ overflows
       THEN RPanic("attempt to multiply with overflow", height.pos)
       ELSE IF pixel_data.st # "ok" THEN pixel_data
       ELSE ROk(<<width.val, height.val, pixel_data.val>>, pixel_data.pos)

\* TileDescription: <<x_size, y_size, level_mode, rounding_mode>>
\* the rounding mode packed at bit 3
TileDescription_write_packed_low(t) ==
    LET level_mode == CASE t[3] = "One" -> 0 [] t[3] = "MipMap" -> 1 [] t[3] = "RipMap" -> 2
        rounding_mode == CASE t[4] = "Down" -> 0 [] t[4] = "Up" -> 1
        mode == level_mode + (rounding_mode * 8)
    IN Then(i32_write(t[1]), Then(i32_write(t[2]), u8_write(mode)))

TileDescription_write(t) ==
    LET level_mode == CASE t[3] = "One" -> 0 [] t[3] = "MipMap" -> 1 [] t[3] = "RipMap" -> 2
        rounding_mode == CASE t[4] = "Down" -> 0 [] t[4] = "Up" -> 1
        mode == level_mode + (rounding_mode * 16)
    IN Then(i32_write(t[1]), Then(i32_write(t[2]), u8_write(mode)))

TileDescription_read(s, pos) ==
    LET x_size == i32_read(s, pos)
        y_size == i32_read(s, x_size.pos)
        mode == u8_read(s, y_size.pos)
        level_mode == mode.val % 16
        rounding_mode == mode.val \div 16
    IN IF x_size.st # "ok" THEN x_size
       ELSE IF y_size.st # "ok" THEN y_size
       ELSE IF mode.st # "ok" THEN mode
       ELSE IF level_mode > 2 THEN RErr("Content(Enum(level mode), Range(0, 2))", mode.pos)
       ELSE IF rounding_mode > 1
            THEN RErr("Content(Enum(rounding mode), Range(0, 1))", mode.pos)
       ELSE ROk(<< x_size.val, y_size.val,
                   CASE level_mode = 0 -> "One" [] level_mode = 1 -> "MipMap"
                     [] level_mode = 2 -> "RipMap",
                   CASE rounding_mode = 0 -> "Down" [] rounding_mode = 1 -> "Up" >>,
                mode.pos)

-----------------------------------------------------------------------------
(* ParsedText: [p, text]; text is <<>> unless p = "Arbitrary"              *)

ParsedText_parse(text) ==
    CASE text = <<115, 99, 97, 110, 108, 105, 110, 101, 105, 109, 97, 103, 101>>
            -> [p |-> "ScanLine", text |-> <<>>]         \* b"scanlineimage"
      [] text = <<116, 105, 108, 101, 100, 105, 109, 97, 103, 101>>
            -> [p |-> "Tile", text |-> <<>>]             \* b"tiledimage"
      [] text = <<100, 101, 101, 112, 115, 99, 97, 110, 108, 105, 110, 101>>
            -> [p |-> "DeepScanLine", text |-> <<>>]     \* b"deepscanline"
      [] text = <<100, 101, 101, 112, 116, 105, 108, 101>>
            -> [p |-> "DeepTile", text |-> <<>>]         \* b"deeptile"
      [] OTHER -> [p |-> "Arbitrary", text |-> text]

ParsedText_to_text_bytes(parsed) ==
    CASE parsed.p = "ScanLine"
            -> <<115, 99, 97, 110, 108, 105, 110, 101, 105, 109, 97, 103, 101>>
      [] parsed.p = "Tile" -> <<116, 105, 108, 101, 100, 105, 109, 97, 103, 101>>
      [] parsed.p = "DeepScanLine"
            -> <<100, 101, 101, 112, 115, 99, 97, 110, 108, 105, 110, 101>>
      [] parsed.p = "DeepTile" -> <<100, 101, 101, 112, 116, 105, 108, 101>>
      [] parsed.p = "Arbitrary" -> parsed.text

-----------------------------------------------------------------------------
(* Channel: [name, pixel_type, is_linear, reserved, x_sampling, y_sampling] *)

Channel_write(channel, long_names) ==
    Then(Text_write_null_terminated(channel.name, Some(long_names)),
    Then(PixelType_write(channel.pixel_type),
    Then(u8_write(IF channel.is_linear THEN 1 ELSE 0),
    Then(write_i8_array(channel.reserved),
    Then(i32_write(channel.x_sampling), i32_write(channel.y_sampling))))))

Channel_read(s, pos) ==
    LET name == Text_read_null_terminated(s, pos)
        pixel_type == PixelType_read(s, name.pos)
        linear == u8_read(s, pixel_type.pos)
        reserved == read_i8_array(s, linear.pos, 3)
        sampling == read_words(s, reserved.pos, 2, <<>>)
    IN IF name.st # "ok" THEN name
       ELSE IF pixel_type.st # "ok" THEN pixel_type
       ELSE IF linear.st # "ok" THEN linear
       ELSE IF linear.val > 1 THEN RErr("Content(Enum(pLinear), Range(0, 1))", linear.pos)
       ELSE IF reserved.st # "ok" THEN reserved
       ELSE IF sampling.st # "ok" THEN sampling
       ELSE ROk([name |-> name.val, pixel_type |-> pixel_type.val,
                 is_linear |-> (linear.val = 1), reserved |-> reserved.val,
                 x_sampling |-> sampling.val[1], y_sampling |-> sampling.val[2]],
                sampling.pos)

RECURSIVE write_channels(_, _)
write_channels(channels, long_names) ==
    IF channels = <<>> THEN WOk(<<>>)
    ELSE Then(Channel_write(Head(channels), long_names),
              write_channels(Tail(channels), long_names))

Channel_write_list(channels, long_names) ==
    Then(write_channels(channels, long_names), SequenceEnd_write)

RECURSIVE read_channels(_, _, _)
read_channels(s, pos, channels) ==
    LET end == SequenceEnd_has_come(s, pos) IN
    IF end.st # "ok" THEN end
    ELSE IF end.val THEN ROk(channels, end.pos)
    ELSE LET channel == Channel_read(s, pos) IN
         IF channel.st # "ok" THEN channel
         ELSE read_channels(s, channel.pos, Append(channels, channel.val))

Channel_read_list(s, pos) == read_channels(s, pos, <<>>)

-----------------------------------------------------------------------------
(* AttributeValue: [tag, f], tag the variant and f the tuple of its fields *)

AttributeValue_byte_size(value) == WPanic("not implemented")

AttributeValue_kind_name(value) ==
    CASE value.tag = "I32Box2" -> <<98, 111, 120, 50, 105>>                 \* b"box2i"
      [] value.tag = "F32Box2" -> <<98, 111, 120, 50, 102>>                 \* b"box2f"
      [] value.tag = "I32" -> <<105, 110, 116>>                             \* b"int"
      [] value.tag = "F32" -> <<102, 108, 111, 97, 116>>                    \* b"float"
      [] value.tag = "F64" -> <<100, 111, 117, 98, 108, 101>>               \* b"double"
      [] value.tag = "Rational" -> <<114, 97, 116, 105, 111, 110, 97, 108>> \* b"rational"
      [] value.tag = "TimeCode" -> <<116, 105, 109, 101, 99, 111, 100, 101>> \* b"timecode"
      [] value.tag = "I32Vec2" -> <<118, 101, 99, 50, 105>>                 \* b"vec2i"
      [] value.tag = "F32Vec2" -> <<118, 101, 99, 50, 102>>                 \* b"vec2f"
      [] value.tag = "I32Vec3" -> <<118, 101, 99, 51, 105>>                 \* b"vec3i"
      [] value.tag = "F32Vec3" -> <<118, 101, 99, 51, 102>>                 \* b"vec3f"
      [] value.tag = "ChannelList" -> <<99, 104, 108, 105, 115, 116>>       \* b"chlist"
      [] value.tag = "Chromaticities"
            -> <<99, 104, 114, 111, 109, 97, 116, 105, 99, 105, 116, 105, 101, 115>>
      [] value.tag = "Compression"
            -> <<99, 111, 109, 112, 114, 101, 115, 115, 105, 111, 110>>     \* b"compression"
      [] value.tag = "EnvironmentMap" -> <<101, 110, 118, 109, 97, 112>>    \* b"envmap"
      [] value.tag = "KeyCode" -> <<107, 101, 121, 99, 111, 100, 101>>      \* b"keycode"
      [] value.tag = "LineOrder"
            -> <<108, 105, 110, 101, 79, 114, 100, 101, 114>>               \* b"lineOrder"
      [] value.tag = "F32Matrix3x3" -> <<109, 51, 51, 102>>                 \* b"m33f"
      [] value.tag = "F32Matrix4x4" -> <<109, 52, 52, 102>>                 \* b"m44f"
      [] value.tag = "Preview" -> <<112, 114, 101, 118, 105, 101, 119>>     \* b"preview"
      [] value.tag = "Text" -> <<115, 116, 114, 105, 110, 103>>             \* b"string"
      [] value.tag = "TextVector"
            -> <<115, 116, 114, 105, 110, 103, 118, 101, 99, 116, 111, 114>> \* b"stringvector"
      [] value.tag = "TileDescription"
            -> <<116, 105, 108, 101, 100, 101, 115, 99>>                    \* b"tiledesc"

AttributeValue_write(value, long_names) ==
    CASE value.tag \in {"I32Box2", "F32Box2"} -> write_words(value.f)
      [] value.tag \in {"I32", "F32", "F64"} -> write_words(value.f)
      [] value.tag \in {"Rational", "TimeCode"} -> write_words(value.f)
      [] value.tag \in {"I32Vec2", "F32Vec2", "I32Vec3", "F32Vec3"} -> write_words(value.f)
      [] value.tag = "ChannelList" -> Channel_write_list(value.f, long_names)
      [] value.tag = "Chromaticities" -> write_words(value.f)
      [] value.tag = "Compression" -> Compression_write(value.f[1])
      [] value.tag = "EnvironmentMap" -> EnvironmentMap_write(value.f[1])
      [] value.tag = "KeyCode" -> KeyCode_write(value.f)
      [] value.tag = "LineOrder" -> LineOrder_write(value.f[1])
      [] value.tag \in {"F32Matrix3x3", "F32Matrix4x4"} -> write_words(value.f)
      [] value.tag = "Preview" -> Preview_write(value.f)
      [] value.tag = "Text" -> write_u8_array(ParsedText_to_text_bytes(value.f[1]))
      [] value.tag = "TextVector" -> Text_write_vec_of_i32_sized_texts(value.f)
      [] value.tag = "TileDescription" -> TileDescription_write(value.f)

\* a reader `r` of the fields of variant `tag`
Variant(tag, r) ==
    IF r.st = "ok" THEN ROk([tag |-> tag, f |-> r.val], r.pos) ELSE r

Single(r) == IF r.st = "ok" THEN ROk(<<r.val>>, r.pos) ELSE r

\* an unknown-type branch that seeks over the payload itself
UnknownAttributeType_seeking(pos, byte_size) ==
    [st |-> "err", err |-> "UnknownAttributeType", val |-> <<>>,
     pos |-> pos + byte_size, skip |-> byte_size]

\* return Err(ReadError::UnknownAttributeType { bytes_to_skip: byte_size }):
\* nothing is read, the error carries the size
UnknownAttributeType(pos, byte_size) ==
    [st |-> "err", err |-> "UnknownAttributeType", val |-> <<>>, pos |-> pos,
     skip |-> byte_size]

AttributeValue_read(s, pos, kind, byte_size, debug) ==
    CASE kind = <<98, 111, 120, 50, 105>> -> Variant("I32Box2", read_words(s, pos, 4, <<>>))
      [] kind = <<98, 111, 120, 50, 102>> -> Variant("F32Box2", read_words(s, pos, 4, <<>>))
      [] kind = <<105, 110, 116>> -> Variant("I32", read_words(s, pos, 1, <<>>))
      [] kind = <<102, 108, 111, 97, 116>> -> Variant("F32", read_words(s, pos, 1, <<>>))
      [] kind = <<100, 111, 117, 98, 108, 101>>
            -> Variant("F64", read_words(s, pos, 2, <<>>))
      [] kind = <<114, 97, 116, 105, 111, 110, 97, 108>>
            -> Variant("Rational", read_words(s, pos, 2, <<>>))
      [] kind = <<116, 105, 109, 101, 99, 111, 100, 101>>
            -> Variant("TimeCode", read_words(s, pos, 2, <<>>))
      [] kind = <<118, 50, 105>>                                            \* b"v2i"
            -> Variant("I32Vec2", read_words(s, pos, 2, <<>>))
      [] kind = <<118, 50, 102>>                                            \* b"v2f"
            -> Variant("F32Vec2", read_words(s, pos, 2, <<>>))
      [] kind = <<118, 51, 105>>                                            \* b"v3i"
            -> Variant("I32Vec3", read_words(s, pos, 3, <<>>))
      [] kind = <<118, 51, 102>>                                            \* b"v3f"
            -> Variant("F32Vec3", read_words(s, pos, 3, <<>>))
      [] kind = <<99, 104, 108, 105, 115, 116>>
            -> Variant("ChannelList", Channel_read_list(s, pos))
      [] kind = <<99, 104, 114, 111, 109, 97, 116, 105, 99, 105, 116, 105, 101, 115>>
            -> Variant("Chromaticities", read_words(s, pos, 8, <<>>))
      [] kind = <<99, 111, 109, 112, 114, 101, 115, 115, 105, 111, 110>>
            -> Variant("Compression", Single(Compression_read(s, pos)))
      [] kind = <<101, 110, 118, 109, 97, 112>>
            -> Variant("EnvironmentMap", Single(EnvironmentMap_read(s, pos)))
      [] kind = <<107, 101, 121, 99, 111, 100, 101>>
            -> Variant("KeyCode", KeyCode_read(s, pos))
      [] kind = <<108, 105, 110, 101, 79, 114, 100, 101, 114>>
            -> Variant("LineOrder", Single(LineOrder_read(s, pos)))
      [] kind = <<109, 51, 51, 102>>
            -> Variant("F32Matrix3x3", read_words(s, pos, 9, <<>>))
      [] kind = <<109, 52, 52, 102>>
            -> Variant("F32Matrix4x4", read_words(s, pos, 16, <<>>))
      [] kind = <<112, 114, 101, 118, 105, 101, 119>>
            -> Variant("Preview", Preview_read(s, pos, debug))
      [] kind = <<115, 116, 114, 105, 110, 103>>
            -> LET text == Text_read_sized(s, pos, byte_size) IN
               IF text.st # "ok" THEN text
               ELSE ROk([tag |-> "Text", f |-> <<ParsedText_parse(text.val)>>], text.pos)
      [] kind = <<115, 116, 114, 105, 110, 103, 118, 101, 99, 116, 111, 114>>
            -> Variant("TextVector", Text_read_vec_of_i32_sized(s, pos, byte_size, debug))
      [] kind = <<116, 105, 108, 101, 100, 101, 115, 99>>
            -> Variant("TileDescription", TileDescription_read(s, pos))
      [] OTHER -> UnknownAttributeType(pos, byte_size)

-----------------------------------------------------------------------------
(* Attribute: [name, value]                                                *)

Attribute_write(attribute, long_names) ==
    LET size == AttributeValue_byte_size(attribute.value) IN
    Then(Text_write_null_terminated(attribute.name, Some(long_names)),
    Then(Text_write_null_terminated_bytes(AttributeValue_kind_name(attribute.value),
                                          Some(long_names)),
         IF size.st # "ok" THEN size
         ELSE Then(i32_write(size.val), AttributeValue_write(attribute.value, long_names))))

Attribute_read(s, pos, debug) ==
    LET name == Text_read_null_terminated(s, pos)
        kind == Text_read_null_terminated(s, name.pos)
        size == i32_read(s, kind.pos)           \* `as u32`: the same 32 bits
        value == AttributeValue_read(s, size.pos, kind.val, size.val, debug)
    IN IF name.st # "ok" THEN name
       ELSE IF kind.st # "ok" THEN kind
       ELSE IF size.st # "ok" THEN size
       ELSE IF value.st # "ok" THEN value
       ELSE ROk([name |-> name.val, value |-> value.val], value.pos)

-----------------------------------------------------------------------------
(* Inputs of the attribute codec                                           *)

MaxTextLen == 257     \* longest text handed to validation
MaxChannels == 2      \* longest channel list
MaxTexts == 2         \* longest string vector
MaxReads == 2         \* read operations made on one stream

Filled(n, byte) == [i \in 1..n |-> byte]

\* lengths around the limits 1, 31/32 and 255/256, and texts with a
\* terminator or a non-ASCII byte inside
TextSamples ==
    {Filled(n, 65) : n \in {m \in 0..MaxTextLen : m <= 2 \/ m \in 30..33 \/ m >= 254}}
    \cup {<<65, 0, 66>>, <<200>>, <<104, 105>>}

LongNamesOptions == {"None", "false", "true"}

WordSamples == {0, 1, -1, 5, 2147483647, -2147483647 - 1}

ChannelSamples ==
    { [name |-> <<82>>, pixel_type |-> "F16", is_linear |-> TRUE,
       reserved |-> <<0, 0, 0>>, x_sampling |-> 1, y_sampling |-> 1],
      [name |-> <<71>>, pixel_type |-> "F32", is_linear |-> FALSE,
       reserved |-> <<-1, 1, 0>>, x_sampling |-> 2, y_sampling |-> 2],
      [name |-> Filled(32, 66), pixel_type |-> "U32", is_linear |-> FALSE,
       reserved |-> <<0, 0, 0>>, x_sampling |-> 1, y_sampling |-> 1],
      [name |-> <<>>, pixel_type |-> "U32", is_linear |-> TRUE,
       reserved |-> <<0, 0, 0>>, x_sampling |-> 1, y_sampling |-> 1] }

SeqsUpTo(S, n) == UNION {[1..k -> S] : k \in 0..n}

ChannelLists == SeqsUpTo(ChannelSamples, MaxChannels)

AV(tag, f) == [tag |-> tag, f |-> f]

\* at least one value of every AttributeValue variant
AttributeValues ==
    {AV("I32Box2", <<0, 0, 1, 1>>), AV("I32Box2", <<-1, -2, 3, 4>>),
     AV("F32Box2", <<0, 1065353216, 0, -1082130432>>),
     AV("F32", <<1065353216>>), AV("F64", <<0, 1072693248>>),
     AV("Rational", <<-1, 3>>), AV("TimeCode", <<1, -1>>),
     AV("I32Vec2", <<1, 2>>), AV("F32Vec2", <<0, 1065353216>>),
     AV("I32Vec3", <<1, 2, 3>>), AV("F32Vec3", <<0, 1065353216, -1082130432>>),
     AV("Chromaticities", <<1, 2, 3, 4, 5, 6, 7, 8>>),
     AV("KeyCode", <<1, 2, 3, 4, 5, 6, 7>>), AV("KeyCode", <<0, 0, 0, 0, 0, 0, 0>>),
     AV("F32Matrix3x3", [i \in 1..9 |-> i]), AV("F32Matrix4x4", [i \in 1..16 |-> i]),
     AV("Preview", <<1, 1, <<1, -1, 0, 127>>>>), AV("Preview", <<0, 0, <<>>>>),
     AV("Preview", <<2, 1, <<1, 2, 3, 4, 5, 6, 7, 8>>>>)}
    \cup {AV("I32", <<w>>) : w \in WordSamples}
    \cup {AV("ChannelList", channels) : channels \in ChannelLists}
    \cup {AV("Compression", <<c>>) :
            c \in {"None", "RLE", "ZIPSingle", "ZIP", "PIZ", "PXR24", "B44", "B44A"}}
    \cup {AV("EnvironmentMap", <<e>>) : e \in {"LatitudeLongitude", "Cube"}}
    \cup {AV("LineOrder", <<o>>) : o \in {"IncreasingY", "DecreasingY", "RandomY"}}
    \cup {AV("Text", <<[p |-> p, text |-> <<>>]>>) :
            p \in {"ScanLine", "Tile", "DeepScanLine", "DeepTile"}}
    \cup {AV("Text", <<[p |-> "Arbitrary", text |-> t]>>) : t \in {<<104, 105>>, <<>>}}
    \cup {AV("TextVector", texts) :
            texts \in SeqsUpTo({<<104, 105>>, <<97, 98, 99>>, <<>>}, MaxTexts)}
    \cup {AV("TileDescription", <<64, 32, l, r>>) :
            l \in {"One", "MipMap", "RipMap"}, r \in {"Down", "Up"}}

AttributeNames == {<<110>>, Filled(32, 110), <<>>}

\* every variant under every name; of the list variants the one-element lists
Attributes ==
    {[name |-> n, value |-> v] :
        n \in AttributeNames,
        v \in {a \in AttributeValues :
                 a.tag \in {"ChannelList", "TextVector"} => Len(a.f) = 1}}

\* the bytes of an attribute as they lie in a file
Framed(name, kind, size, payload) ==
    name \o <<0>> \o kind \o <<0>> \o LE4(size) \o payload

Payloads ==
    { <<7, 0, 0, 0>>,
      <<1, 2, 3, 4, 5, 6, 7, 9, 9>>,
      LE4(3) \o <<97, 98, 99>> \o LE4(1) \o <<100>> \o <<9>>,
      LE4(-1) \o <<97, 98, 99>>,
      LE4(65536) \o LE4(65536) \o <<9>>,
      LE4(1) \o LE4(1) \o <<32>>,
      LE4(1) \o LE4(1) \o <<17>>,
      <<8>> }

ReadKinds ==
    { <<98, 111, 103, 117, 115>>,                                     \* b"bogus"
      <<105, 110, 116>>,                                              \* b"int"
      <<118, 50, 105>>,                                               \* b"v2i"
      <<115, 116, 114, 105, 110, 103>>,                               \* b"string"
      <<112, 114, 101, 118, 105, 101, 119>>,                          \* b"preview"
      <<116, 105, 108, 101, 100, 101, 115, 99>>,                      \* b"tiledesc"
      <<99, 111, 109, 112, 114, 101, 115, 115, 105, 111, 110>>,       \* b"compression"
      <<115, 116, 114, 105, 110, 103, 118, 101, 99, 116, 111, 114>> } \* b"stringvector"

SizeFields == {-1, 0, 5, 7}

\* what Attribute::read can be opened on: attributes as they lie in a file
AttributeBytes ==
    {Framed(<<120>>, kind, size, payload) :
        kind \in ReadKinds, size \in SizeFields, payload \in Payloads}

\* what the text and value readers can be opened on
ValueBytes == Payloads \cup {<<104, 105, 0, 120>>}

-----------------------------------------------------------------------------
(* The attribute codec as a state machine: one stream, written once by a   *)
(* write operation or opened on given bytes, then read.  A reader is run   *)
(* on a stream opened on given bytes or on what its own writer produced.   *)

NoRequest == [kind |-> <<>>, byte_size |-> 0, start |-> 0]

Wrote(by, v, long_names, result) ==
    /\ op = "new"
    /\ op' = by
    /\ written' = [by |-> by, v |-> v, long_names |-> long_names]
    /\ outcome' = result
    /\ stream' = result.out
    /\ position' = 0
    /\ request' = NoRequest
    /\ UNCHANGED <<reads, debug_assertions, image_vars, read_vars, call_vars>>

Did(by, kind, byte_size, result) ==
    /\ op # "new"
    /\ reads < MaxReads
    /\ reads' = reads + 1
    /\ op' = by
    /\ request' = [kind |-> kind, byte_size |-> byte_size, start |-> position]
    /\ outcome' = result
    /\ position' = result.pos
    /\ UNCHANGED <<stream, written, debug_assertions, image_vars, read_vars, call_vars>>

TextValidate ==
    \E text \in TextSamples, long_names \in LongNamesOptions :
        Wrote("Text::validate", text, long_names, Text_validate(text, long_names))

TextWriteUnsizedBytes ==
    \E text \in TextSamples, long_names \in LongNamesOptions :
        Wrote("Text::write_unsized_bytes", text, long_names,
              Text_write_unsized_bytes(text, long_names))

TextWriteI32Sized ==
    \E text \in TextSamples, long_names \in LongNamesOptions :
        Wrote("Text::write_i32_sized", text, long_names,
              Text_write_i32_sized(text, long_names))

TextWriteNullTerminated ==
    \E text \in TextSamples, long_names \in LongNamesOptions :
        Wrote("Text::write_null_terminated", text, long_names,
              Text_write_null_terminated(text, long_names))

ChannelWriteList ==
    \E channels \in ChannelLists, long_names \in BOOLEAN :
        Wrote("Channel::write_list", channels, Some(long_names),
              Channel_write_list(channels, long_names))

AttributeValueWrite ==
    \E value \in AttributeValues, long_names \in BOOLEAN :
        Wrote("AttributeValue::write", value, Some(long_names),
              AttributeValue_write(value, long_names))

AttributeWrite ==
    \E attribute \in Attributes, long_names \in BOOLEAN :
        Wrote("Attribute::write", attribute, Some(long_names),
              Attribute_write(attribute, long_names))

Opened(holding, bytes) ==
    /\ op = "new"
    /\ op' = "open"
    /\ stream' = bytes
    /\ position' = 0
    /\ written' = [by |-> holding, v |-> <<>>, long_names |-> "None"]
    /\ UNCHANGED <<request, outcome, reads, debug_assertions, image_vars, read_vars,
                 call_vars>>

OpenAttribute == \E bytes \in AttributeBytes : Opened("file: attribute", bytes)

OpenValue == \E bytes \in ValueBytes : Opened("file: value", bytes)

TextReadNullTerminated ==
    /\ written.by \in {"file: value", "Text::write_null_terminated"}
    /\ Did("Text::read_null_terminated", <<>>, 0, Text_read_null_terminated(stream, position))

TextReadI32Sized ==
    /\ written.by \in {"file: value", "Text::write_i32_sized"}
    /\ Did("Text::read_i32_sized", <<>>, 0, Text_read_i32_sized(stream, position))

AttributeValueRead ==
    \E kind \in CASE written.by = "AttributeValue::write"
                        -> {AttributeValue_kind_name(written.v)}
                   [] written.by = "file: value" -> ReadKinds
                   [] OTHER -> {},
       byte_size \in {Len(stream) - position, 5} :
        Did("AttributeValue::read", kind, byte_size,
            AttributeValue_read(stream, position, kind, byte_size, debug_assertions))

AttributeRead ==
    /\ written.by \in {"file: attribute", "Attribute::write"}
    /\ Did("Attribute::read", <<>>, 0, Attribute_read(stream, position, debug_assertions))

-----------------------------------------------------------------------------
(* The simple image (image/simple.rs): parts of channels of flat sample    *)
(* vectors, allocated from headers and filled line by line.  Indices in a  *)
(* line are 0-based, as in the code.                                       *)

\* outcome of an insert: what was returned, or that it unwound, and the object
\* as the call left it
Passive(st, err, new) == [st |-> st, err |-> err, new |-> new]

\* Vec2 / Vec2, component by component
Vec2_div(a, b) == <<a[1] \div b[1], a[2] \div b[2]>>

BytesPerSample(pixel_type) == IF pixel_type = "F16" THEN 2 ELSE 4

\* the first n little-endian samples of the line's bytes
Line_read_samples(l, pixel_type, n) ==
    IF Len(l.value) < n * BytesPerSample(pixel_type) THEN RErr("Io", Len(l.value))
    ELSE IF pixel_type = "F16"
    THEN ROk([k \in 1..n |-> l.value[2 * k - 1] + 256 * l.value[2 * k]], 2 * n)
    ELSE read_words(l.value, 0, n, <<>>)

Samples_allocate(resolution, pixel_type) ==
    [type |-> pixel_type, data |-> [i \in 1..(resolution[1] * resolution[2]) |-> 0]]

\* every line written into the first row
Samples_insert_line_first_row(samples, resolution, l, debug) ==
    LET x == l.location.position[1]
        width == l.location.width
        read == Line_read_samples(l, samples.type, width)
    IN IF x + width > resolution[1] \/ l.location.position[2] > resolution[2]
          \/ x + width > Len(samples.data) \/ read.st # "ok"
       THEN Passive("err", "data block", samples)
       ELSE Passive("ok", "",
                [samples EXCEPT !.data =
                    [i \in 1..Len(samples.data) |->
                        IF i > x /\ i <= x + width
                        THEN read.val[i - x] ELSE samples.data[i]]])

\* the samples outside the line cleared
Samples_insert_line_clearing(samples, resolution, l, debug) ==
    LET x == l.location.position[1]
        y == l.location.position[2]
        width == l.location.width
        start_index == y * resolution[1] + x
        end_index == start_index + width
        read == Line_read_samples(l, samples.type, width)
    IN IF x + width > resolution[1] \/ y > resolution[2]
          \/ end_index > Len(samples.data) \/ read.st # "ok"
       THEN Passive("err", "data block", samples)
       ELSE Passive("ok", "",
                [samples EXCEPT !.data =
                    [i \in 1..Len(samples.data) |->
                        IF i > start_index /\ i <= end_index
                        THEN read.val[i - start_index] ELSE 0]])

Samples_insert_line(samples, resolution, l, debug) ==
    LET x == l.location.position[1]
        y == l.location.position[2]
        width == l.location.width
        start_index == y * resolution[1] + x
        end_index == start_index + width
        read == Line_read_samples(l, samples.type, width)
    IN IF debug /\ width = 0 THEN Passive("panic", "assertion failed: width != 0", samples)
       ELSE IF x + width > resolution[1]
       THEN Passive("err", "data block x coordinate", samples)
       ELSE IF y > resolution[2]
       THEN Passive("err", "data block y coordinate", samples)
       ELSE IF debug /\ resolution[1] = 0
       THEN Passive("panic", "assertion failed: resolution.0 != 0", samples)
       ELSE IF end_index > Len(samples.data)
       THEN Passive("panic", "slice index out of range", samples)
       ELSE IF read.st # "ok" THEN Passive("err", read.err, samples)
       ELSE Passive("ok", "",
                [samples EXCEPT !.data =
                    [i \in 1..Len(samples.data) |->
                        IF i > start_index /\ i <= end_index
                        THEN read.val[i - start_index] ELSE samples.data[i]]])

Channel_allocate(header, channel) ==
    [name |-> channel.name, is_linear |-> channel.is_linear,
     sampling |-> channel.sampling,
     samples |-> Samples_allocate(Vec2_div(header.data_window.size, channel.sampling),
                                  channel.pixel_type)]

Channel_insert_line(channel, l, resolution, debug) ==
    IF l.location.level # <<0, 0>>
    THEN Passive("panic", "assertion failed: level == (0, 0)", channel)
    ELSE LET r == Samples_insert_line(channel.samples,
                                      Vec2_div(resolution, channel.sampling), l, debug)
         IN Passive(r.st, r.err, [channel EXCEPT !.samples = r.new])

Part_allocate(header) ==
    [data_window |-> header.data_window,
     screen_window_center |-> header.screen_window_center,
     screen_window_width |-> header.screen_window_width,
     name |-> header.name,
     attributes |-> header.custom_attributes,
     channels |-> [i \in 1..Len(header.channels) |->
                      Channel_allocate(header, header.channels[i])],
     compression |-> header.compression,
     line_order |-> header.line_order,
     tiles |-> IF header.blocks[1] = "ScanLines" THEN <<"None">>
               ELSE <<"Some", header.blocks[2].tile_size>>]

Part_insert_line(part, l, debug) ==
    LET location == l.location IN
    IF debug /\ ~(location.position[1] + location.width <= part.data_window.size[1])
    THEN Passive("panic", "assertion failed: x + width <= data_window.size.0", part)
    ELSE IF debug /\ ~(location.position[2] < part.data_window.size[2])
    THEN Passive("panic", "assertion failed: y < data_window.size.1", part)
    ELSE IF ~(location.channel < Len(part.channels))
    THEN Passive("panic", "invalid channel index", part)
    ELSE LET r == Channel_insert_line(part.channels[location.channel + 1], l,
                                      part.data_window.size, debug)
         IN Passive(r.st, r.err,
                    [part EXCEPT !.channels[location.channel + 1] = r.new])

IntRect_zero == [position |-> <<0, 0>>, size |-> <<0, 0>>]

Image_allocate(headers) ==
    [parts |-> [i \in 1..Len(headers) |-> Part_allocate(headers[i])],
     display_window |-> IF headers # <<>> THEN headers[1].display_window
                        ELSE IntRect_zero,
     pixel_aspect |-> IF headers # <<>> THEN headers[1].pixel_aspect ELSE 1065353216]

Image_insert_line(img, l, debug) ==
    IF debug /\ l.location.width = 0
    THEN Passive("panic", "assertion failed: width != 0", img)
    ELSE IF ~(l.location.part < Len(img.parts))
    THEN Passive("err", "chunk part index", img)
    ELSE LET r == Part_insert_line(img.parts[l.location.part + 1], l, debug)
         IN Passive(r.st, r.err, [img EXCEPT !.parts[l.location.part + 1] = r.new])

\* the little-endian bytes of the samples
RECURSIVE LineIndex_write_samples(_, _)
LineIndex_write_samples(samples, pixel_type) ==
    IF samples = <<>> THEN <<>>
    ELSE (IF pixel_type = "F16"
          THEN <<Head(samples) % 256, Head(samples) \div 256>>
          ELSE LE4(Head(samples)))
         \o LineIndex_write_samples(Tail(samples), pixel_type)

\* the line taken one sample further to the right
Samples_extract_line_shifted(samples, index, resolution, debug) ==
    LET start_index == index.position[2] * resolution[1] + index.position[1] + 1
        end_index == start_index + index.width
    IN IF end_index > Len(samples.data)
       THEN Passive("panic", "slice index out of range", <<>>)
       ELSE Passive("ok", "",
                LineIndex_write_samples(SubSeq(samples.data, start_index + 1, end_index),
                                        samples.type))

Samples_extract_line(samples, index, resolution, debug) ==
    LET start_index == index.position[2] * resolution[1] + index.position[1]
        end_index == start_index + index.width
    IN IF debug /\ ~(index.position[1] + index.width <= resolution[1])
       THEN Passive("panic", "assertion failed: x max of width", <<>>)
       ELSE IF debug /\ ~(index.position[2] < resolution[2])
       THEN Passive("panic", "assertion failed: y, height", <<>>)
       ELSE IF debug /\ index.width = 0
       THEN Passive("panic", "assertion failed: width != 0", <<>>)
       ELSE IF debug /\ resolution[1] = 0
       THEN Passive("panic", "assertion failed: resolution.0 != 0", <<>>)
       ELSE IF end_index > Len(samples.data)
       THEN Passive("panic", "slice index out of range", <<>>)
       ELSE Passive("ok", "",
                LineIndex_write_samples(SubSeq(samples.data, start_index + 1, end_index),
                                        samples.type))

Channel_extract_line(channel, index, resolution, debug) ==
    IF debug /\ index.level # <<0, 0>>
    THEN Passive("panic", "assertion failed: level == (0, 0)", <<>>)
    ELSE Samples_extract_line(channel.samples, index,
                              Vec2_div(resolution, channel.sampling), debug)

Part_extract_line(part, index, debug) ==
    IF debug /\ ~(index.position[1] + index.width <= part.data_window.size[1])
    THEN Passive("panic", "assertion failed: x + width <= data_window.size.0", <<>>)
    ELSE IF debug /\ ~(index.position[2] < part.data_window.size[2])
    THEN Passive("panic", "assertion failed: y < data_window.size.1", <<>>)
    ELSE IF ~(index.channel < Len(part.channels))
    THEN Passive("panic", "invalid channel index", <<>>)
    ELSE Channel_extract_line(part.channels[index.channel + 1], index,
                              part.data_window.size, debug)

Image_extract_line(img, index, debug) ==
    IF debug /\ index.width = 0
    THEN Passive("panic", "assertion failed: width != 0", <<>>)
    ELSE IF ~(index.part < Len(img.parts))
    THEN Passive("panic", "invalid part index", <<>>)
    ELSE Part_extract_line(img.parts[index.part + 1], index, debug)

-----------------------------------------------------------------------------
(* Headers and lines the image operations are applied to                   *)

MaxInserts == 2

\* a scan-line part of 2 x 2 pixels, its second channel subsampled
ScanLineHeader ==
    [name |-> <<"Some", <<97>>>>,
     data_window |-> [position |-> <<0, 0>>, size |-> <<2, 2>>],
     display_window |-> [position |-> <<0, 0>>, size |-> <<2, 2>>],
     pixel_aspect |-> 1065353216,
     screen_window_center |-> <<0, 0>>, screen_window_width |-> 1065353216,
     custom_attributes |-> <<>>,
     channels |-> << [name |-> <<66>>, pixel_type |-> "F16", is_linear |-> FALSE,
                      sampling |-> <<1, 1>>],
                     [name |-> <<71>>, pixel_type |-> "F32", is_linear |-> TRUE,
                      sampling |-> <<2, 2>>] >>,
     compression |-> "None", line_order |-> "Increasing",
     blocks |-> <<"ScanLines">>, deep |-> FALSE]

\* a tiled part of 3 x 2 pixels with one channel
TiledHeader ==
    [name |-> <<"Some", <<98>>>>,
     data_window |-> [position |-> <<-1, 3>>, size |-> <<3, 2>>],
     display_window |-> [position |-> <<0, 0>>, size |-> <<4, 4>>],
     pixel_aspect |-> 1073741824,
     screen_window_center |-> <<0, 0>>, screen_window_width |-> 1065353216,
     custom_attributes |-> <<>>,
     channels |-> << [name |-> <<89>>, pixel_type |-> "U32", is_linear |-> FALSE,
                      sampling |-> <<1, 1>>] >>,
     compression |-> "RLE", line_order |-> "Decreasing",
     blocks |-> <<"Tiles", [tile_size |-> <<2, 2>>, level_mode |-> "Singular",
                            rounding_mode |-> "Down"]>>,
     deep |-> FALSE]

HeaderLists == {<<>>, <<ScanLineHeader>>, <<TiledHeader, ScanLineHeader>>}

\* the bytes 1, 2, ..., n
Counting(n) == [i \in 1..n |-> i]

\* lines for an image, each with as many bytes as the addressed channel needs:
\* every placement of a line in the channels the image has, and one line at the
\* origin for every part, channel and level index up to one past the last
LineSamples(img) ==
    { l \in
        { [location |-> [part |-> part, level |-> level, channel |-> channel,
                         position |-> <<x, y>>, width |-> width],
           value |-> Counting(width *
                        (IF part < Len(img.parts)
                            /\ channel < Len(img.parts[part + 1].channels)
                         THEN BytesPerSample(
                                img.parts[part + 1].channels[channel + 1].samples.type)
                         ELSE 4))] :
            part \in 0..Len(img.parts), channel \in 0..2,
            level \in {<<0, 0>>, <<1, 0>>},
            x \in 0..1, y \in 0..2, width \in 0..2 } :
        \/ /\ l.location.part < Len(img.parts)
           /\ l.location.channel < Len(img.parts[l.location.part + 1].channels)
           /\ l.location.level = <<0, 0>>
        \/ /\ l.location.position = <<0, 0>>
           /\ l.location.width = 1 }

NoLine == [location |-> [part |-> 0, level |-> <<0, 0>>, channel |-> 0,
                         position |-> <<0, 0>>, width |-> 0],
           value |-> <<>>]

-----------------------------------------------------------------------------
(* The image as a state machine: allocated once from headers, then filled  *)
(* by insert_line calls; a call that panics ends the run.                  *)

ImageAllocate ==
    /\ inserted.st = "unallocated"
    /\ \E headers \in HeaderLists : image' = Image_allocate(headers)
    /\ inserted' = [st |-> "allocated", err |-> ""]
    /\ UNCHANGED <<line, inserts, debug_assertions, codec_vars, read_vars, call_vars>>

\* the line that the last extract_line call produced, while the image is as
\* that call saw it; once a line was extracted, it is the line put in next
ExtractedLines ==
    IF call.fn = "Image::extract_line"
    THEN IF returned.st = "ok" /\ call.of = inserts
         THEN {[location |-> call.arg, value |-> returned.new]} ELSE {}
    ELSE {}

ImageInsertLine ==
    /\ inserted.st \notin {"unallocated", "panic"}
    /\ inserts < MaxInserts
    /\ \E l \in (IF call.fn = "Image::extract_line" THEN ExtractedLines
                 ELSE LineSamples(image)) :
        LET r == Image_insert_line(image, l, debug_assertions) IN
        /\ image' = r.new
        /\ line' = l
        /\ inserted' = [st |-> r.st, err |-> r.err]
    /\ inserts' = inserts + 1
    /\ UNCHANGED <<debug_assertions, codec_vars, read_vars, call_vars>>

\* a line is asked of the image, at one of the places lines are put
ImageExtractLine ==
    /\ inserted.st \notin {"unallocated", "panic"}
    /\ inserts < MaxInserts
    /\ call.fn = "none"
    /\ \E index \in {l.location : l \in LineSamples(image)} :
        /\ call' = [fn |-> "Image::extract_line", arg |-> index, of |-> inserts]
        /\ returned' = Image_extract_line(image, index, debug_assertions)
    /\ UNCHANGED <<debug_assertions, codec_vars, image_vars, read_vars>>

-----------------------------------------------------------------------------
(* Reading a file into the image (Image::read_from_buffered).  The reader  *)
(* behind it, image::read_filtered_lines_from_buffered, takes the chunks   *)
(* of the file in order, drops those the filter refuses, decompresses the  *)
(* others (itself, or on a pool of workers that send their blocks through  *)
(* a bounded channel) and applies the lines of each block to the user      *)
(* state with insert_line.                                                 *)

Workers == 2
ChannelCapacity == 2

\* a part with two resolution levels, 2 x 1 and 1 x 1
MipHeader ==
    [name |-> <<"Some", <<109>>>>,
     data_window |-> [position |-> <<0, 0>>, size |-> <<2, 1>>],
     display_window |-> [position |-> <<0, 0>>, size |-> <<2, 1>>],
     pixel_aspect |-> 1065353216,
     screen_window_center |-> <<0, 0>>, screen_window_width |-> 1065353216,
     custom_attributes |-> <<>>,
     channels |-> << [name |-> <<89>>, pixel_type |-> "U32", is_linear |-> FALSE,
                      sampling |-> <<1, 1>>] >>,
     compression |-> "None", line_order |-> "Increasing",
     blocks |-> <<"Tiles", [tile_size |-> <<2, 2>>, level_mode |-> "MipMap",
                            rounding_mode |-> "Down"]>>,
     deep |-> FALSE]

\* a deep part of one pixel
DeepHeader ==
    [name |-> <<"Some", <<100>>>>,
     data_window |-> [position |-> <<0, 0>>, size |-> <<1, 1>>],
     display_window |-> [position |-> <<0, 0>>, size |-> <<1, 1>>],
     pixel_aspect |-> 1065353216,
     screen_window_center |-> <<0, 0>>, screen_window_width |-> 1065353216,
     custom_attributes |-> <<>>,
     channels |-> << [name |-> <<90>>, pixel_type |-> "F32", is_linear |-> FALSE,
                      sampling |-> <<1, 1>>] >>,
     compression |-> "None", line_order |-> "Increasing",
     blocks |-> <<"ScanLines">>, deep |-> TRUE]

\* the bytes from + 1, ..., from + n
Bytes(from, n) == [i \in 1..n |-> from + i]

MkLine(part, channel, level, pos, width, value) ==
    [location |-> [part |-> part, level |-> level, channel |-> channel,
                   position |-> pos, width |-> width],
     value |-> value]

Chunk(part, level, lines, fault) ==
    [part |-> part, level |-> level, lines |-> lines, fault |-> fault]

\* the two scan-line blocks of ScanLineHeader as part `part`: a row of channel B
\* and of the subsampled channel G, then the second row of channel B
ScanLineChunks(part, first_fault, second_fault, second_bytes) ==
    << Chunk(part, <<0, 0>>,
             << MkLine(part, 0, <<0, 0>>, <<0, 0>>, 2, Bytes(10, 4)),
                MkLine(part, 1, <<0, 0>>, <<0, 0>>, 1, Bytes(20, 4)) >>, first_fault),
       Chunk(part, <<0, 0>>,
             << MkLine(part, 0, <<0, 0>>, <<0, 1>>, 2, Bytes(30, second_bytes)) >>,
             second_fault) >>

Files ==
    { [headers |-> <<ScanLineHeader>>,
       chunks |-> ScanLineChunks(0, "none", "none", 4)],
      [headers |-> <<ScanLineHeader>>,
       chunks |-> ScanLineChunks(0, "decode", "none", 4)],
      [headers |-> <<ScanLineHeader>>,
       chunks |-> ScanLineChunks(0, "none", "read", 4)],
      [headers |-> <<ScanLineHeader>>,
       chunks |-> ScanLineChunks(0, "none", "none", 3)],
      [headers |-> <<MipHeader>>,
       chunks |-> << Chunk(0, <<0, 0>>,
                       << MkLine(0, 0, <<0, 0>>, <<0, 0>>, 2, Bytes(40, 8)) >>, "none"),
                     Chunk(0, <<1, 1>>,
                       << MkLine(0, 0, <<1, 1>>, <<0, 0>>, 1, Bytes(50, 4)) >>, "none") >>],
      [headers |-> <<DeepHeader, ScanLineHeader>>,
       chunks |-> << Chunk(0, <<0, 0>>,
                       << MkLine(0, 0, <<0, 0>>, <<0, 0>>, 1, Bytes(60, 4)) >>, "none") >>
                  \o ScanLineChunks(1, "none", "none", 4)] }

NoFile == [headers |-> <<>>, chunks |-> <<>>]

\* the filter Image::read_from_buffered passes to the reader
tile_predicate_any(header, tile_index) == TRUE

tile_predicate(header, tile_index) ==
    ~header.deep /\ tile_index.location.level_index = <<0, 0>>

Passes(f, chunk) ==
    tile_predicate(f.headers[chunk.part + 1],
                   [location |-> [level_index |-> chunk.level]])

\* insert the lines of a block one after the other, up to the first failure
RECURSIVE insert_lines(_, _, _)
insert_lines(state, lines, debug) ==
    IF lines = <<>> THEN Passive("ok", "", state)
    ELSE LET r == Image_insert_line(state, Head(lines), debug) IN
         IF r.st # "ok" THEN r ELSE insert_lines(r.new, Tail(lines), debug)

\* the serial read from chunk i on: every chunk in file order
RECURSIVE read_chunks(_, _, _, _)
read_chunks(f, i, state, debug) ==
    IF i > Len(f.chunks) THEN Passive("ok", "", state)
    ELSE LET chunk == f.chunks[i] IN
         IF chunk.fault = "read" THEN Passive("err", "read", state)
         ELSE IF ~Passes(f, chunk) THEN read_chunks(f, i + 1, state, debug)
         ELSE IF chunk.fault = "decode" THEN Passive("err", "decode", state)
         ELSE LET r == insert_lines(state, chunk.lines, debug) IN
              IF r.st # "ok" THEN r ELSE read_chunks(f, i + 1, r.new, debug)

read_serial(f, debug) == read_chunks(f, 1, Image_allocate(f.headers), debug)

NoReturn == [st |-> "none", err |-> ""]

Idle == \A w \in 1..Workers : working[w] = 0

\* the read returns the error e: the user state is dropped
Fail(e) ==
    /\ pc' = "failed"
    /\ returned' = [st |-> "err", err |-> e]
    /\ current' = <<>>

\* a read that starts without allocating the user state
ReadBegin_unallocated ==
    /\ pc = "idle"
    /\ \E f \in Files, par \in BOOLEAN :
        /\ file' = f
        /\ parallel' = par
    /\ pc' = "reading"
    /\ UNCHANGED <<image_vars, allocations, next_chunk, queue, working, results, current,
                   inserting, call_vars, debug_assertions, codec_vars>>

\* the call: the meta data is read and the user state is allocated from it
ReadBegin ==
    /\ pc = "idle"
    /\ \E f \in Files, par \in BOOLEAN :
        /\ file' = f
        /\ parallel' = par
        /\ image' = Image_allocate(f.headers)
    /\ allocations' = allocations + 1
    /\ inserted' = [st |-> "allocated", err |-> ""]
    /\ pc' = "reading"
    /\ UNCHANGED <<line, inserts, next_chunk, queue, working, results, current,
                   inserting, call_vars, debug_assertions, codec_vars>>

\* the next chunk of the file is read: refused by the filter, handed to the
\* pool, or decompressed on the spot
TakeChunk ==
    /\ pc = "reading"
    /\ next_chunk < Len(file.chunks)
    /\ current = <<>>
    /\ inserting = {}
    /\ next_chunk' = next_chunk + 1
    /\ LET chunk == file.chunks[next_chunk + 1] IN
       IF chunk.fault = "read"
       THEN Fail("read") /\ UNCHANGED queue
       ELSE IF ~Passes(file, chunk)
       THEN UNCHANGED <<pc, returned, current, queue>>
       ELSE IF parallel
       THEN queue' = queue \cup {next_chunk + 1} /\ UNCHANGED <<pc, returned, current>>
       ELSE IF chunk.fault = "decode"
       THEN Fail("decode") /\ UNCHANGED queue
       ELSE current' = chunk.lines /\ UNCHANGED <<pc, returned, queue>>
    /\ UNCHANGED <<file, parallel, working, results, inserting, allocations, call,
                   image_vars, debug_assertions, codec_vars>>

\* a worker takes a chunk from the pool's queue
WorkerTake ==
    /\ \E w \in 1..Workers, i \in queue :
        /\ working[w] = 0
        /\ working' = [working EXCEPT ![w] = i]
        /\ queue' = queue \ {i}
    /\ UNCHANGED <<file, parallel, pc, next_chunk, results, current, inserting,
                   allocations, call_vars, image_vars, debug_assertions, codec_vars>>

\* a worker that applies its block itself
WorkerSend_inserting ==
    /\ \E w \in 1..Workers :
        /\ working[w] # 0
        /\ inserting' = inserting \cup {"worker"}
        /\ working' = [working EXCEPT ![w] = 0]
    /\ UNCHANGED <<file, parallel, pc, next_chunk, queue, current, results,
                   allocations, call_vars, image_vars, debug_assertions, codec_vars>>

\* a worker has decompressed its chunk and sends the block, or the error, to
\* the collector
WorkerSend ==
    /\ Len(results) < ChannelCapacity
    /\ \E w \in 1..Workers :
        /\ working[w] # 0
        /\ results' = Append(results, working[w])
        /\ working' = [working EXCEPT ![w] = 0]
    /\ UNCHANGED <<file, parallel, pc, next_chunk, queue, current, inserting,
                   allocations, call_vars, image_vars, debug_assertions, codec_vars>>

\* the collector receives the next result: an error ends the read, a block
\* is applied line by line
Collect ==
    /\ pc = "reading"
    /\ results # <<>>
    /\ current = <<>>
    /\ inserting = {}
    /\ results' = Tail(results)
    /\ IF file.chunks[Head(results)].fault = "decode"
       THEN Fail("decode")
       ELSE current' = file.chunks[Head(results)].lines /\ UNCHANGED <<pc, returned>>
    /\ UNCHANGED <<file, parallel, next_chunk, queue, working, inserting, allocations,
                   call, image_vars, debug_assertions, codec_vars>>

\* results that arrive after the first error and are applied all the same
Drain_applying ==
    /\ pc = "failed"
    /\ results # <<>>
    /\ results' = Tail(results)
    /\ image' = insert_lines(image, file.chunks[Head(results)].lines,
                             debug_assertions).new
    /\ inserts' = inserts + 1
    /\ UNCHANGED <<file, parallel, pc, next_chunk, queue, working, current, inserting,
                   allocations, call_vars, line, inserted, debug_assertions,
                   codec_vars>>

\* results that arrive after the first error are dropped
Drain ==
    /\ pc = "failed"
    /\ results # <<>>
    /\ results' = Tail(results)
    /\ UNCHANGED <<file, parallel, pc, next_chunk, queue, working, current, inserting,
                   allocations, call_vars, image_vars, debug_assertions, codec_vars>>

\* the collector calls insert_line with the next line of the block
InsertBegin ==
    /\ pc = "reading"
    /\ current # <<>>
    /\ inserting = {}
    /\ inserting' = {"main"}
    /\ UNCHANGED <<file, parallel, pc, next_chunk, queue, working, results, current,
                   allocations, call_vars, image_vars, debug_assertions, codec_vars>>

\* the call returns: a failure ends the read
InsertEnd ==
    /\ inserting = {"main"}
    /\ inserting' = {}
    /\ LET r == Image_insert_line(image, Head(current), debug_assertions) IN
       /\ image' = r.new
       /\ line' = Head(current)
       /\ inserted' = [st |-> r.st, err |-> r.err]
       /\ CASE r.st = "ok" -> current' = Tail(current) /\ UNCHANGED <<pc, returned>>
            [] r.st = "err" -> Fail(r.err)
            [] OTHER -> /\ pc' = "panicked"
                        /\ current' = <<>>
                        /\ UNCHANGED returned
    /\ inserts' = inserts + 1
    /\ UNCHANGED <<file, parallel, next_chunk, queue, working, results, allocations,
                   call, debug_assertions, codec_vars>>

\* every chunk is read and every block applied: the user state is returned
ReadFinish ==
    /\ pc = "reading"
    /\ next_chunk = Len(file.chunks)
    /\ queue = {} /\ Idle /\ results = <<>> /\ current = <<>> /\ inserting = {}
    /\ pc' = "done"
    /\ returned' = [st |-> "ok", err |-> ""]
    /\ UNCHANGED <<file, parallel, next_chunk, queue, working, results, current,
                   inserting, allocations, call, image_vars, debug_assertions,
                   codec_vars>>

-----------------------------------------------------------------------------
(* Parts and the headers inferred from them (Part::new, Part::infer_header) *)

\* a < b for two texts: byte by byte, a proper prefix first
RECURSIVE TextLess(_, _)
TextLess(a, b) ==
    IF b = <<>> THEN FALSE
    ELSE IF a = <<>> THEN TRUE
    ELSE IF Head(a) # Head(b) THEN Head(a) < Head(b)
    ELSE TextLess(Tail(a), Tail(b))

\* insert into a list sorted by name, behind the channels of the same name
RECURSIVE insert_by_name(_, _)
insert_by_name(sorted, chan) ==
    IF sorted = <<>> THEN <<chan>>
    ELSE IF TextLess(chan.name, Head(sorted).name) THEN <<chan>> \o sorted
    ELSE <<Head(sorted)>> \o insert_by_name(Tail(sorted), chan)

\* channels.sort_by_key(|chan| chan.name.clone()): a stable sort
RECURSIVE sort_by_name(_)
sort_by_name(channels) ==
    IF channels = <<>> THEN <<>>
    ELSE insert_by_name(sort_by_name(SubSeq(channels, 1, Len(channels) - 1)),
                        channels[Len(channels)])

Channel_new(name, is_linear, samples) ==
    [name |-> name, is_linear |-> is_linear, sampling |-> <<1, 1>>, samples |-> samples]

Part_new(name, compression, data_window, channels) ==
    IF channels = <<>>
    THEN Passive("panic", "at least one channel is required", <<>>)
    ELSE IF ~(\A i \in 1..Len(channels) :
                Len(channels[i].samples.data)
                    \div (channels[i].sampling[1] * channels[i].sampling[2])
                = data_window.size[1] * data_window.size[2])
    THEN Passive("panic", "channel data size must conform to data window size", <<>>)
    ELSE Passive("ok", "",
            [channels |-> sort_by_name(channels),
             data_window |-> data_window,
             name |-> <<"Some", name>>,
             attributes |-> <<>>,
             compression |-> compression,
             tiles |-> <<"None">>,
             line_order |-> "Unspecified",
             screen_window_center |-> <<0, 0>>,
             screen_window_width |-> 1065353216])

Channel_infer_channel_attribute(channel) ==
    [pixel_type |-> channel.samples.type, name |-> channel.name,
     is_linear |-> channel.is_linear, sampling |-> channel.sampling]

\* the channel list of a header, holding the channels as they are given
ChannelList_new(list) == list

\* number of chunks of a part: scan-line blocks of the codec's height, or the
\* tiles of the one level
compute_chunk_count(compression, data_window, blocks) ==
    LET ceil(a, b) == (a + b - 1) \div b
        rows == CASE compression \in {"ZIP", "PXR24"} -> 16
                  [] compression \in {"PIZ", "B44", "B44A"} -> 32
                  [] OTHER -> 1
    IN IF blocks[1] = "ScanLines" THEN ceil(data_window.size[2], rows)
       ELSE ceil(data_window.size[1], blocks[2].tile_size[1])
            * ceil(data_window.size[2], blocks[2].tile_size[2])

Part_infer_header(part, display_window, pixel_aspect, debug) ==
    LET blocks == IF part.tiles[1] = "Some"
                  THEN <<"Tiles", [tile_size |-> part.tiles[2],
                                   level_mode |-> "Singular",
                                   rounding_mode |-> "Down"]>>
                  ELSE <<"ScanLines">>
    IN IF debug /\ sort_by_name(part.channels) # part.channels
       THEN Passive("panic", "channels must be sorted alphabetically", <<>>)
       ELSE Passive("ok", "",
               [chunk_count |-> compute_chunk_count(part.compression, part.data_window,
                                                    blocks),
                name |-> part.name,
                data_window |-> part.data_window,
                screen_window_center |-> part.screen_window_center,
                screen_window_width |-> part.screen_window_width,
                compression |-> part.compression,
                channels |-> ChannelList_new(
                    [i \in 1..Len(part.channels) |->
                        Channel_infer_channel_attribute(part.channels[i])]),
                line_order |-> part.line_order,
                custom_attributes |-> part.attributes,
                display_window |-> display_window,
                pixel_aspect |-> pixel_aspect,
                blocks |-> blocks,
                deep_data_version |-> <<"None">>,
                max_samples_per_pixel |-> <<"None">>,
                deep |-> FALSE])

\* channels to build parts from: two of them of one name
PartChannels ==
    { Channel_new(<<82>>, FALSE, [type |-> "F16", data |-> <<0>>]),
      Channel_new(<<71>>, TRUE, [type |-> "F32", data |-> <<0>>]),
      Channel_new(<<82>>, TRUE, [type |-> "U32", data |-> <<7>>]),
      Channel_new(<<66>>, FALSE, [type |-> "U32", data |-> <<1, 2>>]) }

\* a tiled part whose levels are rounded up
RoundedUpHeader ==
    [TiledHeader EXCEPT !.blocks = <<"Tiles", [tile_size |-> <<2, 2>>,
                                              level_mode |-> "Singular",
                                              rounding_mode |-> "Up"]>>]

PartHeaders == {ScanLineHeader, TiledHeader, MipHeader, RoundedUpHeader, DeepHeader}

NoCall == [fn |-> "none", arg |-> <<>>, of |-> <<>>]

PartNew ==
    /\ call.fn = "none"
    /\ \E channels \in SeqsUpTo(PartChannels, MaxChannels),
          size \in {<<1, 1>>, <<2, 1>>}, compression \in {"None", "ZIP"} :
        LET data_window == [position |-> <<0, 0>>, size |-> size] IN
        /\ call' = [fn |-> "Part::new", arg |-> <<<<112>>, compression, data_window,
                                                  channels>>, of |-> <<>>]
        /\ returned' = Part_new(<<112>>, compression, data_window, channels)
    /\ UNCHANGED <<debug_assertions, codec_vars, image_vars, read_vars>>

PartAllocate ==
    /\ call.fn = "none"
    /\ \E header \in PartHeaders :
        /\ call' = [fn |-> "Part::allocate", arg |-> header, of |-> <<>>]
        /\ returned' = Passive("ok", "", Part_allocate(header))
    /\ UNCHANGED <<debug_assertions, codec_vars, image_vars, read_vars>>

\* a part is built anew from the fields of an allocated part
PartNewOfAllocated ==
    /\ call.fn = "Part::allocate"
    /\ returned.st = "ok"
    /\ returned.new.name[1] = "Some"
    /\ call' = [fn |-> "Part::new",
                arg |-> <<returned.new.name[2], returned.new.compression,
                          returned.new.data_window, returned.new.channels>>,
                of |-> call]
    /\ returned' = Part_new(returned.new.name[2], returned.new.compression,
                            returned.new.data_window, returned.new.channels)
    /\ UNCHANGED <<debug_assertions, codec_vars, image_vars, read_vars>>

\* the channels of a part are public: here the caller turns the list round
PartEdit ==
    /\ call.fn \in {"Part::new", "Part::allocate"}
    /\ returned.st = "ok"
    /\ call' = [fn |-> "edit", arg |-> <<>>, of |-> call]
    /\ returned' = Passive("ok", "",
            [returned.new EXCEPT !.channels =
                [i \in 1..Len(@) |-> @[Len(@) + 1 - i]]])
    /\ UNCHANGED <<debug_assertions, codec_vars, image_vars, read_vars>>

PartInferHeader ==
    /\ call.fn \in {"Part::new", "Part::allocate", "edit"}
    /\ returned.st = "ok"
    /\ \E window \in {ScanLineHeader.display_window, TiledHeader.display_window},
          pixel_aspect \in {1065353216, 1073741824} :
        /\ call' = [fn |-> "Part::infer_header",
                    arg |-> <<returned.new, window, pixel_aspect>>, of |-> call]
        /\ returned' = Part_infer_header(returned.new, window, pixel_aspect,
                                         debug_assertions)
    /\ UNCHANGED <<debug_assertions, codec_vars, image_vars, read_vars>>

-----------------------------------------------------------------------------
(* The meta data of an image (Image::infer_meta_data)                      *)

\* the file-level flags, as the constructor is given them
Requirements_new(version, is_multipart, has_tiles, has_long_names, has_deep) ==
    [file_format_version |-> version, is_multipart |-> is_multipart,
     has_tiles |-> has_tiles, has_long_names |-> has_long_names,
     has_deep_data |-> has_deep]

Blocks_has_tiles(blocks) == blocks[1] = "Tiles"

\* the lowest version that can hold the image
Image_minimum_version_lowest(img) == 1

Image_minimum_version(img) == 2

Image_has_long_names(img) == TRUE

Image_infer_meta_data(img, debug) ==
    LET inferred == [i \in 1..Len(img.parts) |->
                        Part_infer_header(img.parts[i], img.display_window,
                                          img.pixel_aspect, debug)]
        headers == [i \in 1..Len(img.parts) |-> inferred[i].new]
        has_tiles == \E i \in 1..Len(headers) : Blocks_has_tiles(headers[i].blocks)
    IN IF \E i \in 1..Len(inferred) : inferred[i].st # "ok"
       THEN LET first == CHOOSE i \in 1..Len(inferred) :
                            /\ inferred[i].st # "ok"
                            /\ \A j \in 1..(i - 1) : inferred[j].st = "ok"
            IN Passive(inferred[first].st, inferred[first].err, <<>>)
       ELSE Passive("ok", "",
               [requirements |-> Requirements_new(Image_minimum_version(img),
                                                  Len(headers) > 1, has_tiles,
                                                  Image_has_long_names(img), FALSE),
                headers |-> headers])

ImageInferMetaData ==
    /\ inserted.st \notin {"unallocated", "panic"}
    /\ call.fn = "none"
    /\ call' = [fn |-> "Image::infer_meta_data", arg |-> image, of |-> <<>>]
    /\ returned' = Image_infer_meta_data(image, debug_assertions)
    /\ UNCHANGED <<debug_assertions, codec_vars, image_vars, read_vars>>

-----------------------------------------------------------------------------
(* Resolution levels (image/mod.rs)                                        *)

\* Levels<Samples>: Singular(samples), Mip(levels), Rip(RipMaps)
Levels_Singular(block) == [kind |-> "Singular", block |-> block]

Levels_Mip(block) == [kind |-> "Mip", block |-> block]

Levels_Rip(block) == [kind |-> "Rip", block |-> block]

\* Vec::get and Vec::get_mut with a zero based index: Some(element) or None
Vec_get(vec, index) ==
    IF index < Len(vec) THEN <<"Some", vec[index + 1]>> ELSE <<"None">>

\* Option::ok_or
ok_or(option, e) ==
    IF option[1] = "Some" THEN Passive("ok", "", option[2])
    ELSE Passive("err", e, <<>>)

\* the index computed from the level count along y
RipMaps_get_level_index_by_height(rip, level) ==
    rip.level_count[2] * level[2] + level[1]

RipMaps_get_level_index(rip, level) ==
    rip.level_count[1] * level[2] + level[1]

RipMaps_get_by_level(rip, level) ==
    Vec_get(rip.map_data, RipMaps_get_level_index(rip, level))

RipMaps_get_by_level_mut(rip, level) ==
    LET index == RipMaps_get_level_index(rip, level)
    IN Vec_get(rip.map_data, index)

Levels_get_level(levels, level, debug) ==
    CASE levels.kind = "Singular" ->
            IF debug /\ level # <<0, 0>>
            THEN Passive("panic", "singular image cannot write leveled blocks bug", <<>>)
            ELSE Passive("ok", "", levels.block)
      [] levels.kind = "Mip" ->
            IF debug /\ level[1] # level[2]
            THEN Passive("panic", "mip map levels must be equal on x and y bug", <<>>)
            ELSE ok_or(Vec_get(levels.block, level[1]), "block mip level index")
      [] levels.kind = "Rip" ->
            ok_or(RipMaps_get_by_level(levels.block, level), "block rip level index")

Levels_get_level_mut(levels, level, debug) ==
    CASE levels.kind = "Singular" ->
            IF debug /\ level # <<0, 0>>
            THEN Passive("panic", "singular image cannot write leveled blocks bug", <<>>)
            ELSE Passive("ok", "", levels.block)
      [] levels.kind = "Mip" ->
            IF debug /\ level[1] # level[2]
            THEN Passive("panic", "mip map levels must be equal on x and y bug", <<>>)
            ELSE ok_or(Vec_get(levels.block, level[1]), "block mip level index")
      [] levels.kind = "Rip" ->
            ok_or(RipMaps_get_by_level_mut(levels.block, level), "block rip level index")

\* level indices that are asked for: 0..MaxLevel on both axes
MaxLevel == 3

LevelIndices == (0..MaxLevel) \X (0..MaxLevel)

\* the samples of level (x, y): one U32 sample that tells the levels apart
SamplesOfLevel(x, y) == <<"U32", <<16 * y + x>>>>

\* a RIP pyramid of x_count by y_count levels, one row of x levels after another
RipPyramid(x_count, y_count) ==
    [map_data |-> [i \in 1..(x_count * y_count) |->
                      SamplesOfLevel((i - 1) % x_count, (i - 1) \div x_count)],
     level_count |-> <<x_count, y_count>>]

RipPyramids == {RipPyramid(1, 2), RipPyramid(2, 1), RipPyramid(2, 2), RipPyramid(3, 2)}

MipPyramid(count) == [i \in 1..count |-> SamplesOfLevel(i - 1, i - 1)]

LevelsInputs ==
    {Levels_Singular(SamplesOfLevel(0, 0)), Levels_Mip(MipPyramid(1)),
     Levels_Mip(MipPyramid(2))}
    \cup {Levels_Rip(rip) : rip \in RipPyramids}

LevelsGetLevel ==
    /\ call.fn = "none"
    /\ \E levels \in LevelsInputs, level \in LevelIndices :
        /\ call' = [fn |-> "Levels::get_level", arg |-> <<levels, level>>, of |-> <<>>]
        /\ returned' = Levels_get_level(levels, level, debug_assertions)
    /\ UNCHANGED <<debug_assertions, codec_vars, image_vars, read_vars>>

LevelsGetLevelMut ==
    /\ call.fn = "none"
    /\ \E levels \in LevelsInputs, level \in LevelIndices :
        /\ call' = [fn |-> "Levels::get_level_mut", arg |-> <<levels, level>>,
                    of |-> <<>>]
        /\ returned' = Levels_get_level_mut(levels, level, debug_assertions)
    /\ UNCHANGED <<debug_assertions, codec_vars, image_vars, read_vars>>

RipMapsGetLevelIndex ==
    /\ call.fn = "none"
    /\ \E rip \in RipPyramids, level \in LevelIndices :
        /\ call' = [fn |-> "RipMaps::get_level_index", arg |-> <<rip, level>>,
                    of |-> <<>>]
        /\ returned' = Passive("ok", "", RipMaps_get_level_index(rip, level))
    /\ UNCHANGED <<debug_assertions, codec_vars, image_vars, read_vars>>

-----------------------------------------------------------------------------
(* RoundingMode::divide (file/attributes.rs).  A u32 is held as the 32-bit *)
(* word it is: the values from 2^31 on are the negative words.             *)

\* a / b as u32, b not zero: the upper 31 bits of a are divided first, then
\* the lowest bit is brought down
UDiv(a, b) ==
    IF b < 0 THEN (IF ULess(a, b) THEN 0 ELSE 1)
    ELSE LET half == IF a >= 0 THEN a \div 2 ELSE ((a \div 2) + 1) + 2147483647
             low == a % 2
             qh == half \div b
             rh == half % b
             qlow == IF rh >= (b - rh) - low THEN 1 ELSE 0
         IN IF qh >= 1073741824
            THEN (((qh - 1073741824) * 2 + qlow) - 2147483647) - 1
            ELSE 2 * qh + qlow

\* a + 1 as u32, wrapping
IncU32(a) == IF a = 2147483647 THEN -2147483647 - 1 ELSE a + 1

\* rounds up also when the division leaves no remainder
RoundingMode_divide_inclusive(mode, dividend, divisor, debug) ==
    IF divisor = 0 THEN Passive("panic", "attempt to divide by zero", 0)
    ELSE LET result == UDiv(dividend, divisor) IN
         IF mode = "Up" /\ ~ULess(dividend, MulU32(result, divisor))
         THEN Passive("ok", "", IncU32(result))
         ELSE Passive("ok", "", result)

RoundingMode_divide(mode, dividend, divisor, debug) ==
    IF divisor = 0 THEN Passive("panic", "attempt to divide by zero", 0)
    ELSE LET result == UDiv(dividend, divisor) IN
         IF mode # "Up" THEN Passive("ok", "", result)
         ELSE IF debug /\ MulOverflowsU32(result, divisor)
         THEN Passive("panic", "attempt to multiply with overflow", 0)
         ELSE IF ULess(MulU32(result, divisor), dividend)
         THEN IF debug /\ result = -1
              THEN Passive("panic", "attempt to add with overflow", 0)
              ELSE Passive("ok", "", IncU32(result))
         ELSE Passive("ok", "", result)

\* the u32 values divided: small ones, and the ones around 2^31 and 2^32
U32Samples ==
    {0, 1, 2, 3, 5, 6, 7, 9, 16, 65535, 65536, 2147483646, 2147483647,
     -2147483647 - 1, -2147483647, -3, -2, -1}

RoundingModeDivide ==
    /\ call.fn = "none"
    /\ \E mode \in {"Down", "Up"}, dividend \in U32Samples, divisor \in U32Samples :
        /\ call' = [fn |-> "RoundingMode::divide",
                    arg |-> <<mode, dividend, divisor>>, of |-> <<>>]
        /\ returned' = RoundingMode_divide(mode, dividend, divisor, debug_assertions)
    /\ UNCHANGED <<debug_assertions, codec_vars, image_vars, read_vars>>

Init ==
    /\ stream = <<>>
    /\ position = 0
    /\ written = [by |-> "none", v |-> <<>>, long_names |-> "None"]
    /\ op = "new"
    /\ request = NoRequest
    /\ outcome = WOk(<<>>)
    /\ reads = 0
    /\ debug_assertions \in BOOLEAN
    /\ image = Image_allocate(<<>>)
    /\ line = NoLine
    /\ inserted = [st |-> "unallocated", err |-> ""]
    /\ inserts = 0
    /\ file = NoFile
    /\ parallel = FALSE
    /\ pc = "idle"
    /\ next_chunk = 0
    /\ queue = {}
    /\ working = [w \in 1..Workers |-> 0]
    /\ results = <<>>
    /\ current = <<>>
    /\ inserting = {}
    /\ allocations = 0
    /\ call = NoCall
    /\ returned = NoReturn

Next ==
    \/ TextValidate
    \/ TextWriteUnsizedBytes
    \/ TextWriteI32Sized
    \/ TextWriteNullTerminated
    \/ ChannelWriteList
    \/ AttributeValueWrite
    \/ AttributeWrite
    \/ OpenAttribute
    \/ OpenValue
    \/ TextReadNullTerminated
    \/ TextReadI32Sized
    \/ AttributeValueRead
    \/ AttributeRead

Spec == Init /\ [][Next]_vars

NextImage ==
    \/ ImageAllocate
    \/ ImageInsertLine
    \/ ImageExtractLine
    \/ ImageInferMetaData

SpecImage == Init /\ [][NextImage]_vars

NextRead ==
    \/ ReadBegin
    \/ TakeChunk
    \/ WorkerTake
    \/ WorkerSend
    \/ Collect
    \/ Drain
    \/ InsertBegin
    \/ InsertEnd
    \/ ReadFinish

SpecRead == Init /\ [][NextRead]_vars

NextPart ==
    \/ PartNew
    \/ PartAllocate
    \/ PartNewOfAllocated
    \/ PartEdit
    \/ PartInferHeader

SpecPart == Init /\ [][NextPart]_vars

NextLevels ==
    \/ LevelsGetLevel
    \/ LevelsGetLevelMut
    \/ RipMapsGetLevelIndex

SpecLevels == Init /\ [][NextLevels]_vars

NextMath ==
    \/ RoundingModeDivide

SpecMath == Init /\ [][NextMath]_vars

-----------------------------------------------------------------------------
(* Properties of the attribute codec                                       *)

WriteOps == {"Attribute::write", "Channel::write_list", "Text::write_i32_sized",
             "Text::write_null_terminated"}

StringVectorKind == <<115, 116, 114, 105, 110, 103, 118, 101, 99, 116, 111, 114>>

\* the last operation read back, from the start of the stream, the value that
\* AttributeValue::write wrote there, under that value's own kind name
ReadBackOwnKind ==
    /\ op = "AttributeValue::read"
    /\ written.by = "AttributeValue::write"
    /\ request.start = 0
    /\ request.kind = AttributeValue_kind_name(written.v)

\* the size field of the attribute that starts at `start`: the result of reading
\* the two texts before it and then the field
SizeFieldOf(s, start) ==
    LET name == Text_read_null_terminated(s, start)
        kind == IF name.st = "ok" THEN Text_read_null_terminated(s, name.pos) ELSE name
    IN IF kind.st = "ok" THEN i32_read(s, kind.pos) ELSE kind

\* C1: a value written by AttributeValue::write and read back by
\* AttributeValue::read, with its kind name and the number of bytes written as
\* byte_size, is read successfully, equals the value written, and the read
\* consumes exactly the bytes written.
C1_RoundTrip ==
    ( /\ ReadBackOwnKind
      /\ AttributeValue_write(written.v, written.long_names = "true").st = "ok"
      /\ request.byte_size = Len(stream) )
    => /\ outcome.st = "ok"
       /\ outcome.val.tag = written.v.tag
       /\ outcome.val.f = written.v.f
       /\ position = Len(stream)

\* C2: Attribute::write of an attribute with a valid name emits name, 0, type
\* name, 0, the i32 size and the value, the size being the number of bytes the
\* value serializer writes.
C2_AttributeFraming ==
    ( /\ op = "Attribute::write"
      /\ Text_validate(written.v.name, written.long_names).st = "ok"
      /\ AttributeValue_write(written.v.value, written.long_names = "true").st = "ok" )
    => LET bytes == AttributeValue_write(written.v.value, written.long_names = "true").out
       IN /\ outcome.st = "ok"
          /\ stream = Framed(written.v.name, AttributeValue_kind_name(written.v.value),
                             Len(bytes), bytes)

\* C3: the kind name written for a variant is recognized by AttributeValue::read
\* and dispatched to that variant, never to the unknown-type branch.
C3_KindNameRecognized ==
    ReadBackOwnKind
    => /\ outcome.err # "UnknownAttributeType"
       /\ outcome.st = "ok" => outcome.val.tag = written.v.tag

\* C4 as stated: on an unrecognized type name Attribute::read skips the payload,
\* so the position ends `size` bytes after the size field, and the outcome
\* records the size.
C4_UnknownTypeSkipsPayload ==
    ( /\ op = "Attribute::read"
      /\ outcome.err = "UnknownAttributeType"
      /\ SizeFieldOf(stream, request.start).val >= 0 )
    => LET size == SizeFieldOf(stream, request.start)
       IN position = size.pos + size.val /\ outcome.skip = size.val

\* C4 amended: on an unrecognized type name Attribute::read consumes nothing of
\* the payload: it returns the error UnknownAttributeType with the position
\* right after the size field, and bytes_to_skip holds the 32 bits of the size
\* field; skipping the payload is left to the caller.
C4_UnknownTypeLeavesPayload ==
    (op = "Attribute::read" /\ outcome.err = "UnknownAttributeType")
    => LET size == SizeFieldOf(stream, request.start)
       IN outcome.st = "err" /\ position = size.pos /\ outcome.skip = size.val

C4_Witness ==
    /\ op = "Attribute::read"
    /\ outcome.err = "UnknownAttributeType"
    /\ outcome.skip = 7
    /\ position + 7 <= Len(stream)

\* C5: validation at write time accepts a text exactly when it is not empty
\* and has at most 31 bytes with long names off, at most 255 with long names on;
\* an accepted text is written as it is and a rejected one is an error.
C5_TextValidation ==
    op \in {"Text::validate", "Text::write_unsized_bytes"}
    => /\ outcome.st = "ok"
          <=> /\ Len(written.v) >= 1
              /\ written.long_names = "false" => Len(written.v) <= 31
              /\ written.long_names = "true" => Len(written.v) <= 255
       /\ outcome.st \in {"ok", "err"}
       /\ (op = "Text::write_unsized_bytes" /\ outcome.st = "ok") => stream = written.v

C5_Witness ==
    /\ op = "Text::write_unsized_bytes"
    /\ written.long_names = "false"
    /\ Len(written.v) = 32
    /\ outcome.st = "err"

\* C6: a text that Text::validate accepts holds only 7-bit ASCII bytes other
\* than NUL, and a text written by write_null_terminated is read back by
\* read_null_terminated with the same bytes.
C6_ValidatedTextIsAscii ==
    /\ (op = "Text::validate" /\ outcome.st = "ok")
       => \A i \in 1..Len(written.v) : written.v[i] \in 1..127
    /\ ( /\ op = "Text::read_null_terminated"
         /\ written.by = "Text::write_null_terminated"
         /\ Text_write_null_terminated(written.v, written.long_names).st = "ok"
         /\ request.start = 0 )
       => outcome.st = "ok" /\ outcome.val = written.v

\* C7: a write operation that fails on a validation error has written no byte.
C7_NoBytesOnValidationFailure ==
    (op \in WriteOps /\ outcome.st = "err") => stream = <<>>

\* C8: reading a string vector returns a vector only after consuming exactly
\* byte_size bytes; entries that do not add up to byte_size are an error
\* (InvalidContent), not a vector and not a panic.
C8_StringVectorSize ==
    (op = "AttributeValue::read" /\ request.kind = StringVectorKind)
    => /\ outcome.st = "ok" => position - request.start = request.byte_size
       /\ outcome.st # "panic"

\* C9: an attribute, or an i32-sized text, whose size field is negative is
\* rejected with InvalidSize.
C9_NegativeSizeInvalid ==
    /\ ( /\ op = "Attribute::read"
         /\ SizeFieldOf(stream, request.start).st = "ok"
         /\ SizeFieldOf(stream, request.start).val < 0 )
       => outcome.st = "err" /\ outcome.err = "InvalidSize"
    /\ ( /\ op = "Text::read_i32_sized"
         /\ i32_read(stream, request.start).st = "ok"
         /\ i32_read(stream, request.start).val < 0 )
       => outcome.st = "err" /\ outcome.err = "InvalidSize"

\* the part, channel or level index of the line does not exist in the image,
\* while the line is otherwise in order: not empty and inside the data window
\* of the part it names, when that part exists
BadIndex(img, l) ==
    /\ l.location.width >= 1
    /\ \/ ~(l.location.part < Len(img.parts))
       \/ LET part == img.parts[l.location.part + 1] IN
          /\ l.location.position[1] + l.location.width <= part.data_window.size[1]
          /\ l.location.position[2] < part.data_window.size[2]
          /\ \/ ~(l.location.channel < Len(part.channels))
             \/ l.location.level # <<0, 0>>

\* C10: Image::insert_line with a part, channel or level index that does not
\* exist in the image returns an error, does not panic, and leaves the image
\* as it was.
C10_BadIndexIsError ==
    [][ (inserts' = inserts + 1 /\ BadIndex(image, line'))
        => (inserted'.st = "err" /\ image' = image) ]_vars

\* the line names a channel of the image at level (0, 0), is not empty, and
\* gets past the debug assertions of Part::insert_line: the call arrives in
\* Samples::insert_line
ReachesSamples(img, l, debug) ==
    /\ l.location.width >= 1
    /\ l.location.part < Len(img.parts)
    /\ LET part == img.parts[l.location.part + 1] IN
       /\ l.location.channel < Len(part.channels)
       /\ l.location.level = <<0, 0>>
       /\ debug => /\ l.location.position[1] + l.location.width
                        <= part.data_window.size[1]
                   /\ l.location.position[2] < part.data_window.size[2]

\* the channel a line names, and the resolution Channel::insert_line hands on
ChannelOf(img, l) == img.parts[l.location.part + 1].channels[l.location.channel + 1]

ResolutionOf(img, l) ==
    Vec2_div(img.parts[l.location.part + 1].data_window.size, ChannelOf(img, l).sampling)

\* C11: a line that passes the coordinate checks of Samples::insert_line
\* addresses only sample indices inside the channel's storage, and a line whose
\* row or column range lies outside the resolution is rejected with an error.
C11_LineInsideStorage ==
    [][ (inserts' = inserts + 1 /\ ReachesSamples(image, line', debug_assertions))
        => LET x == line'.location.position[1]
               y == line'.location.position[2]
               width == line'.location.width
               resolution == ResolutionOf(image, line')
               passes == ~(x + width > resolution[1]) /\ ~(y > resolution[2])
           IN /\ passes => /\ y * resolution[1] + x + width
                                <= Len(ChannelOf(image, line').samples.data)
                           /\ inserted'.st # "panic"
              /\ (x + width > resolution[1] \/ y >= resolution[2])
                 => inserted'.st = "err" ]_vars

-----------------------------------------------------------------------------
(* Properties of the read                                                  *)

\* C12: a read calls allocate exactly once, before the first insert_line call,
\* and the user state is afterwards changed only by insert_line calls.
C12_AllocateOnce ==
    [][ /\ allocations' <= 1
        /\ (inserts' # inserts \/ inserting' # {}) => allocations = 1
        /\ image' # image
           => \/ pc = "idle" /\ allocations' = allocations + 1
              \/ inserting = {"main"} /\ inserts' = inserts + 1 ]_vars

C12_Witness ==
    pc = "done" /\ allocations = 1 /\ inserts = 3

\* C13: in a parallel read at most one insert_line call is in progress at any
\* time, it is the collector's, and a step of a worker leaves the user state
\* alone.
C13_InsertNeverConcurrent ==
    /\ [](Cardinality(inserting) <= 1 /\ inserting \subseteq {"main"})
    /\ [][ working' # working => image' = image /\ inserting' = inserting ]_vars

C13_Witness ==
    /\ parallel
    /\ inserting = {"main"}
    /\ \E w \in 1..Workers : working[w] # 0

\* C14: a read that returns the user state returns the image of the serial read
\* of the same file, whatever the order in which the blocks were delivered, after
\* the same number of insert_line calls; and it fails when the serial read fails.
C14_ParallelEqualsSerial ==
    LET serial == read_serial(file, debug_assertions)
        lines == {<<i, k>> \in (1..Len(file.chunks)) \X (1..2) :
                    Passes(file, file.chunks[i]) /\ k <= Len(file.chunks[i].lines)}
    IN /\ pc = "done" => /\ serial.st = "ok"
                         /\ image = serial.new
                         /\ inserts = Cardinality(lines)
       /\ pc = "failed" => serial.st = "err"

\* the blocks were applied in another order than the file's: the line inserted
\* last is one of the first block
C14_Witness ==
    /\ pc = "done"
    /\ parallel
    /\ inserts = 3
    /\ \E k \in 1..Len(file.chunks[1].lines) : line = file.chunks[1].lines[k]

\* C15: a read that failed returns the first error and no user state, and
\* makes no insert_line call after the failure, also not with results that
\* were outstanding at that time.
C15_FirstErrorWins ==
    /\ [](pc = "failed" => returned.st = "err" /\ inserting = {})
    /\ [][ pc = "failed"
           => /\ pc' = "failed"
              /\ returned' = returned
              /\ image' = image
              /\ inserts' = inserts
              /\ inserting' = {} ]_vars

C15_Witness ==
    /\ pc = "failed"
    /\ parallel
    /\ results # <<>>
    /\ returned.err = "decode"

\* C16: insert_line is called only with lines of chunks the filter accepts: in
\* a read into the simple image no line of a deep header and no line of a level
\* other than (0, 0) reaches Image::insert_line, and the level assertion of
\* Channel::insert_line does not fail.
C16_OnlyFilteredLines ==
    /\ \A k \in 1..Len(current) :
        /\ current[k].location.level = <<0, 0>>
        /\ ~file.headers[current[k].location.part + 1].deep
    /\ inserts > 0 => /\ line.location.level = <<0, 0>>
                      /\ ~file.headers[line.location.part + 1].deep
                      /\ inserted.st # "panic"

C16_Witness ==
    /\ pc = "done"
    /\ \E i \in 1..Len(file.chunks) : file.chunks[i].level # <<0, 0>>
    /\ inserts = 1

-----------------------------------------------------------------------------
(* Properties of the inferred headers                                      *)

\* C17: in every header Part::infer_header emits, the channels are strictly
\* ascending by name: sorted, and no two of the same name.
C17_ChannelsStrictlySorted ==
    (call.fn = "Part::infer_header" /\ returned.st = "ok")
    => \A i \in 1..(Len(returned.new.channels) - 1) :
          TextLess(returned.new.channels[i].name, returned.new.channels[i + 1].name)

\* C18: for a header h that is not deep, Part::infer_header of Part::allocate(h)
\* with h's display window and pixel aspect gives a header equal to h in name,
\* data window, channels, compression, line order, custom attributes and block
\* description.
C18_HeaderPreserved ==
    ( /\ call.fn = "Part::infer_header"
      /\ call.of.fn = "Part::allocate"
      /\ ~call.of.arg.deep
      /\ call.arg[2] = call.of.arg.display_window
      /\ call.arg[3] = call.of.arg.pixel_aspect )
    => LET h == call.of.arg
           inferred == returned.new
       IN /\ returned.st = "ok"
          /\ inferred.name = h.name
          /\ inferred.data_window = h.data_window
          /\ inferred.channels = h.channels
          /\ inferred.compression = h.compression
          /\ inferred.line_order = h.line_order
          /\ inferred.custom_attributes = h.custom_attributes
          /\ inferred.blocks = h.blocks

-----------------------------------------------------------------------------
(* Properties of the resolution levels                                     *)

\* the level index lies outside the stored pyramid: a Mip level at or beyond
\* the number of levels, a Rip level beyond the level count of either axis
OutsidePyramid(levels, level) ==
    CASE levels.kind = "Mip" -> level[1] = level[2] /\ level[1] >= Len(levels.block)
      [] levels.kind = "Rip" -> \/ level[1] >= levels.block.level_count[1]
                                \/ level[2] >= levels.block.level_count[2]
      [] OTHER -> FALSE

\* C19: Levels::get_level and get_level_mut return an error for every level
\* index outside the stored pyramid (Mip: at or beyond the number of levels,
\* Rip: x or y at or beyond its level count), never the samples of a level.
C19_OutsidePyramidIsError ==
    ( /\ call.fn \in {"Levels::get_level", "Levels::get_level_mut"}
      /\ OutsidePyramid(call.arg[1], call.arg[2]) )
    => returned.st = "err"

\* C20 (as stated): RipMaps::get_level_index maps level (x, y) of a pyramid
\* with level counts (wlev, hlev) to hlev * y + x.
C20_RipIndexByHeight ==
    call.fn = "RipMaps::get_level_index"
    => returned.new = call.arg[1].level_count[2] * call.arg[2][2] + call.arg[2][1]

\* C20 (amended): RipMaps::get_level_index maps level (x, y) of a pyramid
\* with level counts (wlev, hlev) to wlev * y + x, which is the place of the
\* level in map_data for every level inside the pyramid.
C20_RipIndexByWidth ==
    call.fn = "RipMaps::get_level_index"
    => LET rip == call.arg[1]
           x == call.arg[2][1]
           y == call.arg[2][2]
       IN /\ returned.new = rip.level_count[1] * y + x
          /\ (x < rip.level_count[1] /\ y < rip.level_count[2])
             => Vec_get(rip.map_data, returned.new) = <<"Some", SamplesOfLevel(x, y)>>

\* C20 witness: the index of a level with y > 0 inside a pyramid whose level
\* counts differ on the two axes has been computed
C20_Witness ==
    /\ call.fn = "RipMaps::get_level_index"
    /\ call.arg[1].level_count = <<3, 2>>
    /\ call.arg[2] = <<2, 1>>
    /\ returned.new = 5

-----------------------------------------------------------------------------
(* Properties of the meta data of an image                                 *)

\* the names of an image: part names, channel names, attribute names
NamesOf(img) ==
    UNION { ( (IF img.parts[i].name[1] = "Some" THEN {img.parts[i].name[2]} ELSE {})
              \cup {img.parts[i].channels[c].name :
                        c \in 1..Len(img.parts[i].channels)}
              \cup {img.parts[i].attributes[a].name :
                        a \in 1..Len(img.parts[i].attributes)} ) :
            i \in 1..Len(img.parts) }

\* C21: Image::infer_meta_data sets has_long_names exactly when some name
\* text of the image (part, channel or attribute name) is longer than 31 bytes.
C21_LongNamesFromTexts ==
    (call.fn = "Image::infer_meta_data" /\ returned.st = "ok")
    => (returned.new.requirements.has_long_names
        <=> \E name \in NamesOf(call.arg) : Len(name) > 31)

-----------------------------------------------------------------------------
(* Properties of the value codecs                                          *)

\* C23: reading a preview attribute never takes more bytes than the declared
\* size of the attribute: 4 * width * height is computed without 32-bit
\* overflow, and a preview whose width and height ask for more bytes than the
\* declared size is rejected.
C23_PreviewWithinDeclaredSize ==
    (op = "AttributeValue::read" /\ request.kind = <<112, 114, 101, 118, 105, 101, 119>>)
    => /\ outcome.st # "panic"
       /\ outcome.st = "ok"
          => /\ position - request.start <= request.byte_size
             /\ ~MulOverflowsU32(outcome.val.f[1], outcome.val.f[2])
             /\ ~MulOverflowsU32(MulU32(outcome.val.f[1], outcome.val.f[2]), 4)
             /\ Len(outcome.val.f[3])
                    = MulU32(MulU32(outcome.val.f[1], outcome.val.f[2]), 4)

-----------------------------------------------------------------------------
(* Properties of the level arithmetic                                      *)

\* a - b as u32, wrapping
SubU32(a, b) ==
    CASE (a < 0) = (b < 0) -> a - b
      [] a < 0 /\ b >= 0 ->
            IF a >= (-2147483647 - 1) + b THEN a - b
            ELSE ((((a + 2147483647) + 1) - b) + 2147483647) + 1
      [] OTHER ->
            IF a <= 2147483647 + b THEN a - b
            ELSE ((((a - 2147483647) - 1) - b) - 2147483647) - 1

\* q is the floor of a / b: q * b <= a < q * b + b, nothing passing 2^32 - 1
IsFloor(q, a, b) ==
    /\ ~MulOverflowsU32(q, b)
    /\ ~ULess(a, MulU32(q, b))
    /\ ULess(SubU32(a, MulU32(q, b)), b)

\* q is the ceiling of a / b: 0 for a = 0, else (q - 1) * b < a <= (q - 1) * b + b
IsCeiling(q, a, b) ==
    IF a = 0 THEN q = 0
    ELSE /\ q # 0
         /\ ~MulOverflowsU32(SubU32(q, 1), b)
         /\ ULess(MulU32(SubU32(q, 1), b), a)
         /\ ~ULess(b, SubU32(a, MulU32(SubU32(q, 1), b)))

\* C24: for all u32 a and b with b > 0, RoundingMode::Up.divide(a, b) is the
\* ceiling of a / b and RoundingMode::Down.divide(a, b) the floor, and no
\* intermediate step overflows 32 bits (no build unwinds).
C24_DivideRounds ==
    (call.fn = "RoundingMode::divide" /\ call.arg[3] # 0)
    => /\ returned.st = "ok"
       /\ call.arg[1] = "Down" => IsFloor(returned.new, call.arg[2], call.arg[3])
       /\ call.arg[1] = "Up" => IsCeiling(returned.new, call.arg[2], call.arg[3])

\* C24 witness: 2^32 - 1 divided by 2, rounding up, is 2^31
C24_Witness ==
    /\ call.fn = "RoundingMode::divide"
    /\ call.arg = <<"Up", -1, 2>>
    /\ returned.st = "ok"
    /\ returned.new = -2147483647 - 1

\* C25: a tile description is written with its modes packed into one byte,
\* level_mode + 16 * rounding_mode, and read back as the same description;
\* a byte whose low four bits exceed 2 or whose high four bits exceed 1 is
\* rejected as invalid content.
C25_TileDescriptionModeByte ==
    ( /\ op = "AttributeValue::read"
      /\ request.kind = <<116, 105, 108, 101, 100, 101, 115, 99>>
      /\ request.start + 9 <= Len(stream) )
    => LET mode == stream[request.start + 9]
           t == written.v.f
       IN /\ (written.by = "AttributeValue::write" /\ request.start = 0)
             => /\ outcome.st = "ok"
                /\ outcome.val = written.v
                /\ position = 9
                /\ mode = (CASE t[3] = "One" -> 0 [] t[3] = "MipMap" -> 1
                             [] t[3] = "RipMap" -> 2)
                          + 16 * (CASE t[4] = "Down" -> 0 [] t[4] = "Up" -> 1)
          /\ (mode % 16 > 2 \/ mode \div 16 > 1)
             => /\ outcome.st = "err"
                /\ outcome.err \in {"Content(Enum(level mode), Range(0, 2))",
                                     "Content(Enum(rounding mode), Range(0, 1))"}
          /\ (mode % 16 <= 2 /\ mode \div 16 <= 1) => outcome.st = "ok"

\* C25 witness: a RipMap description rounding up has been written with the
\* mode byte 18 and read back
C25_Witness ==
    /\ op = "AttributeValue::read"
    /\ request.kind = <<116, 105, 108, 101, 100, 101, 115, 99>>
    /\ request.start = 0
    /\ written.by = "AttributeValue::write"
    /\ written.v.f = <<64, 32, "RipMap", "Up">>
    /\ stream[9] = 18
    /\ outcome.st = "ok"
    /\ outcome.val.f = <<64, 32, "RipMap", "Up">>

\* a mode byte with the high four bits 2 has been rejected
C25_RejectedWitness ==
    /\ op = "AttributeValue::read"
    /\ request.kind = <<116, 105, 108, 101, 100, 101, 115, 99>>
    /\ request.start = 0
    /\ written.by = "file: value"
    /\ Len(stream) = 9
    /\ stream[9] = 32
    /\ outcome.err = "Content(Enum(rounding mode), Range(0, 1))"

\* the codecs by their byte on disk: None=0, RLE=1, ZIP single-row=2, ZIP16=3,
\* PIZ=4, PXR24=5, B44=6, B44A=7
CodecOfByte ==
    <<"None", "RLE", "ZIPSingle", "ZIP", "PIZ", "PXR24", "B44", "B44A">>

\* C26: the compression attribute is one byte, None=0 .. B44A=7;
\* Compression::read inverts Compression::write for all eight codecs, and
\* every other byte is rejected as invalid content of the compression enum.
C26_CompressionByte ==
    /\ (op = "AttributeValue::write" /\ written.v.tag = "Compression")
       => /\ outcome.st = "ok"
          /\ Len(stream) = 1
          /\ stream[1] \in 0..7
          /\ CodecOfByte[stream[1] + 1] = written.v.f[1]
    /\ ( /\ op = "AttributeValue::read"
         /\ request.kind = <<99, 111, 109, 112, 114, 101, 115, 115, 105, 111, 110>>
         /\ request.start < Len(stream) )
       => LET byte == stream[request.start + 1] IN
          /\ byte <= 7 => /\ outcome.st = "ok"
                          /\ outcome.val = AV("Compression", <<CodecOfByte[byte + 1]>>)
                          /\ position = request.start + 1
          /\ byte > 7 => /\ outcome.st = "err"
                         /\ outcome.err = "Content(Enum(compression), Range(0, 7))"
          /\ written.by = "AttributeValue::write" => outcome.val = written.v

\* C26 witness: ZIP16 has been written as the byte 3 and read back
C26_Witness ==
    /\ op = "AttributeValue::read"
    /\ written.by = "AttributeValue::write"
    /\ written.v = AV("Compression", <<"ZIP">>)
    /\ stream = <<3>>
    /\ outcome.st = "ok"
    /\ outcome.val = written.v

\* the byte 8 has been rejected as a compression
C26_RejectedWitness ==
    /\ op = "AttributeValue::read"
    /\ request.kind = <<99, 111, 109, 112, 114, 101, 115, 115, 105, 111, 110>>
    /\ stream = <<8>>
    /\ request.start = 0
    /\ outcome.err = "Content(Enum(compression), Range(0, 7))"

\* C27: a keycode is serialized as exactly seven i32 fields (28 bytes) in the
\* order KeyCode::read takes them: every field read, perforations_per_frame
\* included, is written at the same position.
C27_KeyCodeSevenFields ==
    (op = "AttributeValue::write" /\ written.v.tag = "KeyCode")
    => /\ outcome.st = "ok"
       /\ Len(stream) = 28
       /\ KeyCode_read(stream, 0).st = "ok"
       /\ KeyCode_read(stream, 0).val = written.v.f

-----------------------------------------------------------------------------
(* Properties of the lines of an image                                     *)

\* the image img with the samples first..(last - 1) of one channel of one part
\* taken from the image other (indices counted from 0)
WithSamplesOf(img, other, part, channel, first, last) ==
    [img EXCEPT !.parts[part + 1].channels[channel + 1].samples.data =
        [i \in 1..Len(@) |->
            IF first < i /\ i <= last
            THEN other.parts[part + 1].channels[channel + 1].samples.data[i]
            ELSE @[i]]]

\* C28: a successful Image::insert_line changes only the samples y * width + x
\* up to y * width + x + line_width - 1 of the channel and part the line names
\* (width being the width of a row of that channel); every other sample,
\* channel and part and all meta data stay as they were, and an insert_line
\* that fails changes nothing.
C28_InsertChangesOnlyTheLine ==
    [][ inserts' = inserts + 1
        => IF inserted'.st = "ok"
           THEN LET location == line'.location
                    part == image.parts[location.part + 1]
                    channel == part.channels[location.channel + 1]
                    width == part.data_window.size[1] \div channel.sampling[1]
                    start == location.position[2] * width + location.position[1]
                IN /\ location.part < Len(image.parts)
                   /\ location.channel < Len(part.channels)
                   /\ start + location.width <= Len(channel.samples.data)
                   /\ image' = WithSamplesOf(image, image', location.part,
                                             location.channel, start,
                                             start + location.width)
           ELSE image' = image ]_vars

\* C28 witness: two lines have gone into the second part of an image, the
\* second one into the second row of the channel B, and both are there
C28_Witness ==
    /\ inserts = 2
    /\ inserted.st = "ok"
    /\ Len(image.parts) = 2
    /\ line.location.part = 1
    /\ line.location.channel = 0
    /\ line.location.position = <<0, 1>>
    /\ line.location.width = 2
    /\ image.parts[2].channels[1].samples.data[1] # 0
    /\ image.parts[2].channels[1].samples.data[3] # 0
    /\ \A i \in 1..Len(image.parts[1].channels[1].samples.data) :
            image.parts[1].channels[1].samples.data[i] = 0

\* the line index lies inside a channel of the image: x + width within the
\* row, y below the height, level (0, 0), at least one sample
InsideChannel(img, index) ==
    /\ index.part < Len(img.parts)
    /\ index.channel < Len(img.parts[index.part + 1].channels)
    /\ index.level = <<0, 0>>
    /\ index.width > 0
    /\ LET part == img.parts[index.part + 1]
           resolution == Vec2_div(part.data_window.size,
                                  part.channels[index.channel + 1].sampling)
       IN /\ index.position[1] + index.width <= resolution[1]
          /\ index.position[2] < resolution[2]

\* C29: for every line index inside a channel, extract_line and insert_line
\* address the same samples and are inverse: extracting after inserting the
\* bytes b at that location yields b, and inserting the bytes that
\* extract_line produced at that location leaves the image unchanged.
C29_ExtractInvertsInsert ==
    /\ []( ( /\ call.fn = "Image::extract_line"
             /\ InsideChannel(image, call.arg)
             /\ call.of = inserts )
           => /\ returned.st = "ok"
              /\ (inserted.st = "ok" /\ line.location = call.arg)
                 => returned.new = line.value )
    /\ [][ ( /\ inserts' = inserts + 1
             /\ call.fn = "Image::extract_line"
             /\ InsideChannel(image, call.arg)
             /\ line' \in ExtractedLines )
           => (inserted'.st = "ok" /\ image' = image) ]_vars

\* C29 witness: a line was put into the second row of a channel, extracted
\* there, and the extracted bytes were put back
C29_Witness ==
    /\ inserts = 2
    /\ inserted.st = "ok"
    /\ call.fn = "Image::extract_line"
    /\ call.of = 1
    /\ call.arg = line.location
    /\ call.arg.position = <<0, 1>>
    /\ call.arg.width = 2
    /\ returned.new = line.value
    /\ returned.new = <<1, 2, 3, 4>>

-----------------------------------------------------------------------------
(* Properties of the storage of a part                                     *)

\* C30: every channel that Part::allocate produces holds exactly
\* (data_window.size / sampling).area() samples, and the allocated part meets
\* the size condition that Part::new asserts, whatever the sampling.
C30_AllocateAgreesWithNew ==
    /\ (call.fn = "Part::allocate" /\ returned.st = "ok")
       => \A i \in 1..Len(returned.new.channels) :
            LET channel == returned.new.channels[i]
                size == returned.new.data_window.size
            IN Len(channel.samples.data)
                = (size[1] \div channel.sampling[1]) * (size[2] \div channel.sampling[2])
    /\ (call.fn = "Part::new" /\ DOMAIN call.of # {})
       => returned.st = "ok"

==============================================================================
